---- MODULE Spec2Model ----
(***************************************************************************)
(* A model of the calculator scripting language: BracketStack, tokenizer,  *)
(* precedence-climbing parser and tree-walking evaluator.                  *)
(***************************************************************************)
EXTENDS Integers, Sequences, FiniteSets, TLC

VARIABLES
    stack,      \* BracketStack.stack: Vec<BracketType>
    fed,        \* the brackets passed to update so far, in call order
    results,    \* the Result of each update call, in call order
    code,       \* the source text handed to tokenize (a sequence of chars)
    tokResult,  \* the outcome of tokenize(code)
    code2,      \* a whitespace variant of code
    tokResult2, \* the outcome of tokenize(code2)
    wsEdit,     \* how code2 was made from code: the edit and its position
    tokens,     \* the token slice handed to parse
    parseResult,\* the outcome of parse(tokens)
    evalResult, \* the outcome of eval(ast, empty environment)
    overflow_checks, \* the build: TRUE when i32 overflow aborts, FALSE
                \* when it wraps (rustc's overflow-checks, on in the dev
                \* profile and off in the release profile)
    pc,         \* main's position: the stage it is about to run
    command,    \* Cli.command: Some("Fmt") or None
    verbose,    \* Cli.verbose: the count of -v flags
    output,     \* what main has printed so far, in order
    file        \* the contents of the input file; None when unreadable

vars == <<stack, fed, results, code, tokResult, code2, tokResult2, wsEdit,
          tokens, parseResult, evalResult, overflow_checks,
          pc, command, verbose, output, file>>

bracketVars == <<stack, fed, results>>
tokenizerVars == <<code, tokResult, code2, tokResult2, wsEdit>>
parserVars == <<tokens, parseResult, evalResult>>
mainVars == <<pc, command, verbose, output, file>>

None == [none |-> TRUE]

\* Body applied to value: a result that is computed once and used many times
Bind(value, Body(_)) == Body(value)

(***************************************************************************)
(* bracket.rs                                                              *)
(***************************************************************************)
MaxFeed == 5

BracketType == {"Round", "Curly"}
BracketSide == {"Opening", "Closing"}
Bracket == [type_ : BracketType, side : BracketSide]

new == <<>>

is_empty(s) == Len(s) = 0

update_closes_on_empty(s, bracket) ==
    IF bracket.side = "Opening"
    THEN [stack |-> Append(s, bracket.type_), res |-> "Ok"]
    ELSE IF ~is_empty(s) /\ s[Len(s)] # bracket.type_
         THEN [stack |-> s, res |-> "unmatched closing bracket"]
         ELSE [stack |-> SubSeq(s, 1, Len(s) - 1), res |-> "Ok"]

update_pops_on_mismatch(s, bracket) ==
    IF bracket.side = "Opening"
    THEN [stack |-> Append(s, bracket.type_), res |-> "Ok"]
    ELSE IF is_empty(s)
         THEN [stack |-> s, res |-> "unmatched closing bracket"]
         ELSE IF s[Len(s)] # bracket.type_
              THEN [stack |-> SubSeq(s, 1, Len(s) - 1),
                    res |-> "unmatched closing bracket"]
              ELSE [stack |-> SubSeq(s, 1, Len(s) - 1), res |-> "Ok"]

update(s, bracket) ==
    IF bracket.side = "Opening"
    THEN [stack |-> Append(s, bracket.type_), res |-> "Ok"]
    ELSE IF is_empty(s) \/ s[Len(s)] # bracket.type_
         THEN [stack |-> s, res |-> "unmatched closing bracket"]
         ELSE [stack |-> SubSeq(s, 1, Len(s) - 1), res |-> "Ok"]

Update ==
    /\ Len(fed) < MaxFeed
    /\ \E bracket \in Bracket :
          LET r == update(stack, bracket) IN
          /\ stack' = r.stack
          /\ fed' = Append(fed, bracket)
          /\ results' = Append(results, r.res)
    /\ UNCHANGED <<tokenizerVars, parserVars,
                 overflow_checks, mainVars>>

(***************************************************************************)
(* tokenizer.rs                                                            *)
(* A source text is a sequence of chars; a char is a one-character string, *)
(* except the two non-ASCII chars, which are named by their code point and *)
(* occupy two bytes in UTF-8.  Offsets are byte offsets, as in the code.   *)
(***************************************************************************)
MaxCodeLen == 4

Some(x) == [some |-> x]

Upper == <<"A","B","C","D","E","F","G","H","I","J","K","L","M",
           "N","O","P","Q","R","S","T","U","V","W","X","Y","Z">>
Lower == <<"a","b","c","d","e","f","g","h","i","j","k","l","m",
           "n","o","p","q","r","s","t","u","v","w","x","y","z">>
Digits == {"0","1","2","3","4","5","6","7","8","9"}
NonAscii == {"U+00E9", "U+00A0"}

is_ascii(ch) == ch \notin NonAscii
len_utf8(ch) == IF is_ascii(ch) THEN 1 ELSE 2
is_ascii_digit(ch) == ch \in Digits
is_ascii_alphabetic(ch) == \E i \in 1..26 : ch = Upper[i] \/ ch = Lower[i]
is_ascii_alphanumeric(ch) == is_ascii_alphabetic(ch) \/ is_ascii_digit(ch)
is_whitespace(ch) == ch \in {" ", "\n", "\t", "\r", "U+00A0"}

to_lowercase_char(ch) ==
    IF \E i \in 1..26 : ch = Upper[i]
    THEN Lower[CHOOSE i \in 1..26 : ch = Upper[i]]
    ELSE ch
to_lowercase(lexeme) == [i \in 1..Len(lexeme) |-> to_lowercase_char(lexeme[i])]

RECURSIVE byte_len(_)
byte_len(s) == IF s = <<>> THEN 0 ELSE len_utf8(Head(s)) + byte_len(Tail(s))

\* the byte offset char_indices reports for the k-th char (k = Len+1: the end)
char_idx(s, k) == byte_len(SubSeq(s, 1, k - 1))

is_char_boundary(s, b) == \E k \in 1..(Len(s) + 1) : char_idx(s, k) = b

\* &s[from..to]: a panic unless both ends are char boundaries and from <= to
slice(s, from, to) ==
    IF from <= to /\ is_char_boundary(s, from) /\ is_char_boundary(s, to)
    THEN LET kf == CHOOSE k \in 1..(Len(s) + 1) : char_idx(s, k) = from
             kt == CHOOSE k \in 1..(Len(s) + 1) : char_idx(s, k) = to
         IN  [ok |-> TRUE, s |-> SubSeq(s, kf, kt - 1)]
    ELSE [ok |-> FALSE]

T(name) == [tt |-> name]
BracketToken(type_, side) ==
    [tt |-> "Bracket", bracket |-> [type_ |-> type_, side |-> side]]
Token(t, lexeme) == [t |-> t, lexeme |-> lexeme]

TokOk(toks) == [kind |-> "Ok", tokens |-> toks]
TokenizerError(errmsg, idx) ==
    [kind |-> "Err", errmsg |-> errmsg, error_char_idx |-> idx]
Panic == [kind |-> "Panic"]

is_numeric_char(ch) == is_ascii_digit(ch) \/ ch = "."
is_identifier_char(ch) == is_ascii_alphanumeric(ch) \/ ch = "_"
is_equals_char(ch) == ch = "="
is_not_quote_char(ch) == ch # "\""

\* the closures handed to iter_while_predicate, by name
call(predicate, ch) ==
    CASE predicate = "is_numeric_char" -> is_numeric_char(ch)
      [] predicate = "is_identifier_char" -> is_identifier_char(ch)
      [] predicate = "is_equals_char" -> is_equals_char(ch)
      [] predicate = "is_not_quote_char" -> is_not_quote_char(ch)

\* advances the char iterator from position pos until the predicate fails;
\* next is the iterator's position afterwards
iter_while_predicate(s, pos, predicate) ==
    LET stops == {k \in pos..Len(s) : ~call(predicate, s[k])} IN
    IF stops = {}
    THEN [found |-> FALSE, next |-> Len(s) + 1]
    ELSE LET k == CHOOSE k \in stops : \A j \in stops : k <= j
         IN  [found |-> TRUE, idx |-> char_idx(s, k), ch |-> s[k],
              next |-> k + 1]

match_char(ch) ==
    CASE ch = "+" -> [m |-> "Token", t |-> T("Plus")]
      [] ch = "-" -> [m |-> "Token", t |-> T("Minus")]
      [] ch = "!" -> [m |-> "Token", t |-> T("Bang")]
      [] ch = "*" -> [m |-> "Token", t |-> T("Star")]
      [] ch = "/" -> [m |-> "Token", t |-> T("Slash")]
      [] ch = "(" -> [m |-> "Token", t |-> BracketToken("Round", "Opening")]
      [] ch = ")" -> [m |-> "Token", t |-> BracketToken("Round", "Closing")]
      [] ch = ";" -> [m |-> "Token", t |-> T("ExprEnd")]
      [] ch = "=" -> [m |-> "Token", t |-> T("Equals")]
      [] ch = "^" -> [m |-> "Token", t |-> T("Caret")]
      [] ch = "<" -> [m |-> "Token", t |-> T("LeftAngle")]
      [] ch = ">" -> [m |-> "Token", t |-> T("RightAngle")]
      [] ch = "{" -> [m |-> "Token", t |-> BracketToken("Curly", "Opening")]
      [] ch = "}" -> [m |-> "Token", t |-> BracketToken("Curly", "Closing")]
      [] OTHER -> IF is_whitespace(ch) THEN [m |-> "Whitespace"]
                  ELSE [m |-> "Unexpected"]

match_keyword(lexeme) ==
    CASE lexeme = <<"i","f">> -> Some(T("If"))
      [] lexeme = <<"e","l","s","e">> -> Some(T("Else"))
      [] to_lowercase(lexeme) = <<"t","r","u","e">> -> Some(T("BoolLiteral"))
      [] to_lowercase(lexeme) = <<"f","a","l","s","e">> ->
            Some(T("BoolLiteral"))
      [] lexeme = <<"r","e","t","u","r","n">> -> Some(T("Return"))
      [] lexeme = <<"w","h","i","l","e">> -> Some(T("While"))
      [] lexeme = <<"f","u","n","c">> -> Some(T("Func"))
      [] OTHER -> None

\* tokenizer.rs 65-82: the single-char token left over from the previous
\* iteration, resolved once the lookahead at byte offset lookahead_idx exists
match_current_char(s, lookahead_idx, current_char, toks) ==
    IF current_char = None THEN TokOk(toks)
    ELSE LET cm == match_char(current_char.some) IN
         CASE cm.m = "Token" ->
                LET lex == slice(s, lookahead_idx - 1, lookahead_idx) IN
                IF lex.ok THEN TokOk(Append(toks, Token(cm.t, lex.s)))
                ELSE Panic
           [] cm.m = "Whitespace" -> TokOk(toks)
           [] OTHER -> TokenizerError("unexpected character",
                                      lookahead_idx - 1)

\* tokenizer.rs 160-176: the last leftover char, if one exists
match_last_char(s, current_char, toks) ==
    IF current_char = None THEN TokOk(toks)
    ELSE LET cm == match_char(current_char.some) IN
         CASE cm.m = "Token" ->
                LET lex == slice(s, byte_len(s) - 1, byte_len(s)) IN
                IF lex.ok THEN TokOk(Append(toks, Token(cm.t, lex.s)))
                ELSE Panic
           [] cm.m = "Whitespace" -> TokOk(toks)
           [] OTHER -> TokenizerError("unexpected character", byte_len(s) - 1)

implied_expr_end_always(toks) ==
    IF Len(toks) = 0 THEN Panic
    ELSE TokOk(Append(toks, Token(T("ExprEnd"), <<";">>)))

\* tokenizer.rs 178-186: tokens[tokens.len() - 1] aborts on an empty vector
implied_expr_end(toks) ==
    IF Len(toks) = 0 THEN Panic
    ELSE IF toks[Len(toks)].t # T("ExprEnd")
         THEN TokOk(Append(toks, Token(T("ExprEnd"), <<";">>)))
         ELSE TokOk(toks)

\* tokenizer.rs 56-158: one iteration per char the outer iterator yields;
\* pos is the iterator's position (the index of the next char it yields)
RECURSIVE tokenize_loop(_, _, _, _)
tokenize_loop(s, pos, current_char, toks) ==
    IF pos > Len(s)
    THEN LET last == match_last_char(s, current_char, toks) IN
         IF last.kind # "Ok" THEN last ELSE implied_expr_end(last.tokens)
    ELSE
    LET lookahead_char == s[pos]
        lookahead_idx == char_idx(s, pos)
    IN
    IF ~is_ascii(lookahead_char)
    THEN TokenizerError("non-ASCII character", lookahead_idx)
    ELSE
    LET cur == match_current_char(s, lookahead_idx, current_char, toks) IN
    IF cur.kind # "Ok" THEN cur
    ELSE
    CASE is_numeric_char(lookahead_char) ->
           LET it == iter_while_predicate(s, pos + 1, "is_numeric_char")
               end_idx == IF it.found THEN it.idx ELSE byte_len(s)
               lex == slice(s, lookahead_idx, end_idx)
           IN  IF ~lex.ok THEN Panic
               ELSE tokenize_loop(s, it.next,
                        IF it.found THEN Some(it.ch) ELSE None,
                        Append(cur.tokens, Token(T("Number"), lex.s)))
      [] is_ascii_alphabetic(lookahead_char) ->
           LET it == iter_while_predicate(s, pos + 1, "is_identifier_char")
               end_idx == IF it.found THEN it.idx ELSE byte_len(s)
               lex == slice(s, lookahead_idx, end_idx)
           IN  IF ~lex.ok THEN Panic
               ELSE LET keyword == match_keyword(lex.s) IN
                    tokenize_loop(s, it.next,
                        IF it.found THEN Some(it.ch) ELSE None,
                        Append(cur.tokens,
                               Token(IF keyword # None THEN keyword.some
                                     ELSE T("Identifier"), lex.s)))
      [] lookahead_char = "=" ->
           LET it == iter_while_predicate(s, pos + 1, "is_equals_char")
               end_idx == IF it.found THEN it.idx ELSE byte_len(s)
               lex == slice(s, lookahead_idx, end_idx)
           IN  IF ~lex.ok THEN Panic
               ELSE IF byte_len(lex.s) \notin {1, 2}
               THEN TokenizerError("too much equal signs", end_idx - 1)
               ELSE tokenize_loop(s, it.next,
                        IF it.found THEN Some(it.ch) ELSE None,
                        Append(cur.tokens,
                               Token(IF byte_len(lex.s) = 1 THEN T("Equals")
                                     ELSE T("DoubleEquals"), lex.s)))
      [] lookahead_char = "\"" ->
           LET it == iter_while_predicate(s, pos + 1, "is_not_quote_char") IN
           IF ~it.found
           THEN TokenizerError("unterminated string literal", byte_len(s) - 1)
           ELSE LET lex == slice(s, lookahead_idx, it.idx + 1) IN
                IF ~lex.ok THEN Panic
                ELSE tokenize_loop(s, it.next, None,
                         Append(cur.tokens, Token(T("StringLiteral"), lex.s)))
      [] OTHER -> tokenize_loop(s, pos + 1, Some(lookahead_char), cur.tokens)

tokenize(s) ==
    IF byte_len(s) = 0 THEN TokOk(<<>>)
    ELSE tokenize_loop(s, 1, None, <<>>)

NotRun == [kind |-> "NotRun"]

kinds(toks) == [i \in 1..Len(toks) |-> toks[i].t.tt]

\* tokenizer.rs 335-340
format_token(token) ==
    IF token.t = T("BoolLiteral") THEN to_lowercase(token.lexeme)
    ELSE token.lexeme

\* tokenizer.rs 276-325: the text between two neighbouring tokens and the
\* indentation level after it
delimiter(token_l, token_r, current_indent, newline) ==
    CASE token_l.t = BracketToken("Curly", "Opening") ->
           [text |-> newline, indent |-> current_indent + 1]
      [] token_r.t = BracketToken("Curly", "Closing") ->
           [text |-> newline,
            indent |-> IF current_indent = 0 THEN 0 ELSE current_indent - 1]
      [] OTHER ->
           [text |->
                IF token_l.t = T("Caret") THEN <<>>
                ELSE IF token_r.t = T("Caret") THEN <<>>
                ELSE IF /\ token_l.t = T("Identifier")
                        /\ token_r.t = BracketToken("Round", "Opening")
                THEN <<>>
                ELSE IF token_r.t = T("ExprEnd") THEN <<>>
                ELSE IF token_l.t = T("ExprEnd") THEN newline
                ELSE IF /\ token_l.t.tt = "Bracket"
                        /\ token_l.t.bracket.side = "Opening"
                THEN <<>>
                ELSE IF /\ token_r.t.tt = "Bracket"
                        /\ token_r.t.bracket.side = "Closing"
                THEN <<>>
                ELSE <<" ">>,
            indent |-> current_indent]

\* tokenizer.rs 274-330: the loop over the pairs (tokens[k], tokens[k + 1])
RECURSIVE untokenize_loop(_, _, _, _, _)
untokenize_loop(toks, k, current_indent, res, minified) ==
    IF k >= Len(toks) THEN res
    ELSE Bind(delimiter(toks[k], toks[k + 1], current_indent,
                        IF minified THEN <<" ">> ELSE <<"\n">>),
         LAMBDA d :
         untokenize_loop(
             toks, k + 1, d.indent,
             res \o format_token(toks[k]) \o d.text
                 \o (IF d.text # <<>> /\ d.text[Len(d.text)] = "\n"
                     THEN [i \in 1..(d.indent * (IF minified THEN 0 ELSE 2))
                               |-> " "]
                     ELSE <<>>),
             minified))

\* tokenizer.rs 262-333; tokens[tokens.len() - 1] of line 331 aborts for an
\* empty slice
UntokOk(text) == [kind |-> "Ok", text |-> text]
untokenize(toks, minified) ==
    IF Len(toks) = 0 THEN Panic
    ELSE UntokOk(untokenize_loop(toks, 1, 0, <<>>, minified)
                     \o format_token(toks[Len(toks)]))

(***************************************************************************)
(* values.rs, values/function.rs                                           *)
(* A Float is modelled as a reduced fraction num/den with den > 0 and     *)
(* |num|, den <= FloatLimit.  den = 0 stands for the non-finite floats     *)
(* (num 1: inf, -1: -inf, 0: NaN) and den = -1 for a finite float outside  *)
(* the modelled range, of which only the sign (num) is kept.               *)
(***************************************************************************)
Nothing == [type |-> "Nothing"]
IntV(i) == [type |-> "Int", int |-> i]
String(str) == [type |-> "String", str |-> str]
Bool(b) == [type |-> "Bool", bool |-> b]
Function(f) == [type |-> "Function", func |-> f]
Tuple(elems) == [type |-> "Tuple", elems |-> elems]
Returned(v) == [type |-> "Returned", inner |-> v]
Builtin(name) == [builtin |-> name]
UserDefinedFunction(name, params, body) ==
    [name |-> name, params |-> params, body |-> body]

Abs(n) == IF n < 0 THEN 0 - n ELSE n
Sign(n) == IF n < 0 THEN 0 - 1 ELSE IF n > 0 THEN 1 ELSE 0
RECURSIVE Gcd(_, _)
Gcd(a, b) == IF b = 0 THEN a ELSE Gcd(b, a % b)
FloatLimit == 30000
Float(num, den) ==
    IF den = 0 THEN [type |-> "Float", num |-> Sign(num), den |-> 0]
    ELSE Bind(Gcd(Abs(num), Abs(den)), LAMBDA g :
         Bind(Sign(den) * (num \div g), LAMBDA n :
         Bind(Abs(den) \div g, LAMBDA d :
             IF Abs(n) > FloatLimit \/ d > FloatLimit
             THEN [type |-> "Float", num |-> Sign(n), den |-> -1]
             ELSE [type |-> "Float", num |-> n, den |-> d])))
Unmodelled(sign) == [type |-> "Float", num |-> sign, den |-> -1]

(***************************************************************************)
(* parser.rs                                                               *)
(* Token indices are 0-based as in the code; tokens[i] of the code is      *)
(* at(tokens, i) here.                                                     *)
(***************************************************************************)
i32_MAX == 2147483647
\* stands for usize::MAX: above every index of ORDER_OF_PRECEDENCE
usize_MAX == 2147483647

Unary(op) == [arity |-> "Unary", op |-> op]
Binary(op) == [arity |-> "Binary", op |-> op]

ORDER_OF_PRECEDENCE ==
    <<Unary("Return"), Binary("Assign"), Binary("FormTuple"), Binary("IsEq"),
      Binary("IsLt"), Binary("IsGt"), Binary("Add"), Binary("Sub"),
      Binary("Mul"), Binary("Div"), Unary("Neg"), Binary("Pow"),
      Binary("FunctionCall")>>

precedence(op) ==
    IF \E idx \in 1..Len(ORDER_OF_PRECEDENCE) : ORDER_OF_PRECEDENCE[idx] = op
    THEN (CHOOSE idx \in 1..Len(ORDER_OF_PRECEDENCE) :
              ORDER_OF_PRECEDENCE[idx] = op) - 1
    ELSE usize_MAX

is_rtl_only_assign(op) == op = Binary("Assign")

is_rtl(op) == op = Binary("Assign") \/ op = Binary("FunctionCall")

Value(v) == [e |-> "Value", v |-> v]
Variable(name) == [e |-> "Variable", name |-> name]
BinaryOperation(op, left, right) ==
    [e |-> "BinaryOperation", op |-> op, left |-> left, right |-> right]
UnaryOperation(op, operand) ==
    [e |-> "UnaryOperation", op |-> op, operand |-> operand]
Scope(body, is_returnable) ==
    [e |-> "Scope", body |-> body, is_returnable |-> is_returnable]
If(condition, if_true, if_false) ==
    [e |-> "If", condition |-> condition, if_true |-> if_true,
     if_false |-> if_false]
While(condition, body, if_completed) ==
    [e |-> "While", condition |-> condition, body |-> body,
     if_completed |-> if_completed]

at(toks, i) == toks[i + 1]

ParseOk(expr, i) == [kind |-> "Ok", expr |-> expr, i |-> i]
ParserError(toks, errmsg, idx) ==
    [kind |-> "Err", tokens |-> toks, errmsg |-> errmsg,
     error_token_idx |-> idx]

Min(a, b) == IF a < b THEN a ELSE b

RECURSIVE skip_comments(_, _)
skip_comments(toks, i) ==
    IF i < Len(toks) /\ at(toks, i).t = T("Comment")
    THEN skip_comments(toks, i + 1)
    ELSE i

advance_if_type(toks, idx, t) ==
    IF idx < Len(toks) /\ at(toks, idx).t = t THEN idx + 1 ELSE idx

\* str::parse::<i32> of a lexeme of digits
RECURSIVE DecimalValue(_)
DecimalValue(digits) ==
    IF digits = <<>> THEN 0
    ELSE LET last == digits[Len(digits)] IN
         10 * DecimalValue(SubSeq(digits, 1, Len(digits) - 1))
            + (CHOOSE d \in 0..9 : ToString(d) = last)

RECURSIVE Pow10(_)
Pow10(n) == IF n = 0 THEN 1 ELSE 10 * Pow10(n - 1)

RECURSIVE StripZeros(_)
StripZeros(digits) ==
    IF Len(digits) > 1 /\ Head(digits) = "0" THEN StripZeros(Tail(digits))
    ELSE digits

parse_i32(lexeme) ==
    LET digits == StripZeros(lexeme) IN
    IF Len(lexeme) = 0 \/ \E k \in 1..Len(lexeme) : ~is_ascii_digit(lexeme[k])
    THEN None
    ELSE IF Len(digits) <= 9 THEN Some(DecimalValue(digits))
    ELSE IF /\ Len(digits) = 10
            /\ \/ DecimalValue(SubSeq(digits, 1, 9)) < i32_MAX \div 10
               \/ /\ DecimalValue(SubSeq(digits, 1, 9)) = i32_MAX \div 10
                  /\ DecimalValue(SubSeq(digits, 10, 10)) <= i32_MAX % 10
    THEN Some(DecimalValue(digits))
    ELSE None

\* str::parse::<f32> of a lexeme of digits and dots
parse_f32(lexeme) ==
    LET dots == {k \in 1..Len(lexeme) : lexeme[k] = "."} IN
    IF Cardinality(dots) = 1 /\ Len(lexeme) >= 2
    THEN LET dot == CHOOSE k \in dots : TRUE
             whole == SubSeq(lexeme, 1, dot - 1)
             frac == SubSeq(lexeme, dot + 1, Len(lexeme))
         IN  Some(Float(DecimalValue(whole) * Pow10(Len(frac))
                           + DecimalValue(frac), Pow10(Len(frac))))
    ELSE None

\* parser.rs 303-316: the scan for the closing bracket of the group
RECURSIVE scan_brackets(_, _, _)
scan_brackets(toks, j, bracket_stack) ==
    IF j < Len(toks) /\ ~is_empty(bracket_stack)
    THEN IF at(toks, j).t.tt = "Bracket"
         THEN Bind(update(bracket_stack, at(toks, j).t.bracket), LAMBDA r :
              IF r.res # "Ok"
              THEN [kind |-> "Err", errmsg |-> r.res, j |-> j]
              ELSE scan_brackets(toks, j + 1, r.stack))
         ELSE scan_brackets(toks, j + 1, bracket_stack)
    ELSE [kind |-> "Ok", j |-> j, bracket_stack |-> bracket_stack]

binary_op_of(tt) ==
    CASE tt = "Plus" -> Some("Add")
      [] tt = "Minus" -> Some("Sub")
      [] tt = "Star" -> Some("Mul")
      [] tt = "Slash" -> Some("Div")
      [] tt = "Caret" -> Some("Pow")
      [] tt = "Equals" -> Some("Assign")
      [] tt = "DoubleEquals" -> Some("IsEq")
      [] tt = "LeftAngle" -> Some("IsLt")
      [] tt = "RightAngle" -> Some("IsGt")
      [] OTHER -> None

unary_op_of(tt) ==
    CASE tt = "Minus" -> Some("Neg")
      [] tt = "Bang" -> Some("Neg")
      [] tt = "Return" -> Some("Return")
      [] OTHER -> None

comma_op_always_form(prev_op) == "FormTuple"

\* parser.rs 155-165: what a comma means after the operator before it
comma_op(prev_op) ==
    IF prev_op # None
       /\ (prev_op.some = Binary("FormTuple")
           \/ prev_op.some = Binary("AppendToTuple"))
    THEN "AppendToTuple"
    ELSE "FormTuple"

returns_to_outer_when_tighter(op, outer_op) ==
    /\ outer_op # None
    /\ \/ precedence(op) > precedence(outer_op.some)
       \/ (op = outer_op.some /\ ~is_rtl(op))

\* parser.rs 187-191: the operator belongs to the enclosing call
returns_to_outer(op, outer_op) ==
    /\ outer_op # None
    /\ \/ precedence(op) < precedence(outer_op.some)
       \/ (op = outer_op.some /\ ~is_rtl(op))

RECURSIVE consume_expression(_, _, _, _)
RECURSIVE consume_expression_loop(_, _, _, _, _, _)
RECURSIVE consume_operand(_, _)
RECURSIVE parse_scope_loop(_, _, _, _)

\* parser.rs 104-120
parse_scope(toks, is_returnable) ==
    parse_scope_loop(toks, is_returnable, <<>>, 0)

parse_scope_loop(toks, is_returnable, body, i) ==
    IF i < Len(toks)
    THEN Bind(consume_expression(toks, i, None, FALSE), LAMBDA r :
         IF r.kind # "Ok" THEN r
         ELSE parse_scope_loop(toks, is_returnable, Append(body, r.expr),
                               r.i + 1))
    ELSE [kind |-> "Ok", expr |-> Scope(body, is_returnable)]

\* parser.rs 100-102
parse(toks) == parse_scope(toks, TRUE)

\* parser.rs 122-131
consume_expression(toks, i, outer_op, terminate_on_unexpected_token) ==
    consume_expression_loop(toks, i, outer_op, terminate_on_unexpected_token,
                            None, None)

\* parser.rs 132-233: one iteration of the loop; result and prev_op are the
\* loop's variables
consume_expression_loop(toks, i0, outer_op, terminate_on_unexpected_token, result, prev_op) ==
    Bind(IF result = None THEN consume_operand(toks, skip_comments(toks, i0))
         ELSE ParseOk(result, skip_comments(toks, i0)), LAMBDA operand :
    IF operand.kind # "Ok" THEN operand
    ELSE
    Bind(skip_comments(toks, operand.i), LAMBDA i :
    IF operand.expr # None
    THEN
        LET left == operand.expr.some IN
        IF i >= Len(toks) \/ at(toks, i).t = T("ExprEnd")
        THEN ParseOk(left, Min(i, Len(toks)))
        ELSE
        Bind(IF binary_op_of(at(toks, i).t.tt) # None
             THEN binary_op_of(at(toks, i).t.tt)
             ELSE IF at(toks, i).t.tt = "Comma" THEN Some(comma_op(prev_op))
             ELSE IF at(toks, i).t = BracketToken("Round", "Opening")
                  THEN Some("FunctionCall")
                  ELSE None, LAMBDA next_binary_op :
        IF next_binary_op = None
        THEN IF terminate_on_unexpected_token THEN ParseOk(left, i)
             ELSE ParserError(toks,
                      "expression end or binary operator expected here", i)
        ELSE
        LET next_op_token_count ==
                IF next_binary_op.some = "FunctionCall" THEN 0 ELSE 1
            op == Binary(next_binary_op.some)
        IN
        IF returns_to_outer(op, outer_op) THEN ParseOk(left, i)
        ELSE
        Bind(consume_expression(toks, i + next_op_token_count, Some(op),
                                terminate_on_unexpected_token), LAMBDA right :
        IF right.kind # "Ok" THEN right
        ELSE consume_expression_loop(toks, right.i, outer_op,
                 terminate_on_unexpected_token,
                 Some(BinaryOperation(next_binary_op.some, left, right.expr)),
                 Some(op))))
    ELSE
        IF i >= Len(toks) \/ at(toks, i).t = T("ExprEnd")
        THEN ParseOk(Value(Nothing), i)
        ELSE
        Bind(unary_op_of(at(toks, i).t.tt), LAMBDA next_unary_op :
        IF next_unary_op = None
        THEN ParserError(toks, "operand or unary operator expected here", i)
        ELSE
        Bind(consume_expression(toks, i + 1, Some(Unary(next_unary_op.some)),
                                terminate_on_unexpected_token), LAMBDA inner :
        IF inner.kind # "Ok" THEN inner
        ELSE consume_expression_loop(toks, inner.i, outer_op,
                 terminate_on_unexpected_token,
                 Some(UnaryOperation(next_unary_op.some, inner.expr)),
                 prev_op)))))

\* parser.rs 292-346: a bracketed group starting at token i
consume_bracketed(toks, i) ==
    LET bracket_type == at(toks, i).t.bracket.type_
        opened == update(new, [type_ |-> bracket_type, side |-> "Opening"])
    IN
    Bind(scan_brackets(toks, i + 1, opened.stack), LAMBDA scan :
    IF scan.kind = "Err" THEN ParserError(toks, scan.errmsg, scan.j)
    ELSE IF ~is_empty(scan.bracket_stack)
    THEN ParserError(toks, "unclosed bracket", i)
    ELSE
    \* &tokens[i + 1..j - 1]
    Bind(SubSeq(toks, i + 2, scan.j - 1), LAMBDA bracketed_tokens :
    IF Len(bracketed_tokens) = 0 THEN ParseOk(Some(Value(Nothing)), scan.j)
    ELSE IF bracket_type = "Round"
    THEN Bind(consume_expression(bracketed_tokens, 0, None, FALSE), LAMBDA r :
         IF r.kind # "Ok" THEN r
         ELSE IF r.i < Len(bracketed_tokens) - 1
         THEN ParserError(bracketed_tokens,
                  "round brackets must contain only one expression", r.i)
         ELSE ParseOk(Some(r.expr), scan.j))
    ELSE Bind(parse_scope(bracketed_tokens, FALSE), LAMBDA r :
         IF r.kind # "Ok" THEN r ELSE ParseOk(Some(r.expr), scan.j))))

\* parser.rs 347-380: if / while starting at token i
consume_if_while(toks, i) ==
    Bind(consume_expression(toks, i + 1, None, TRUE), LAMBDA condition :
    IF condition.kind # "Ok" THEN condition
    ELSE IF condition.i >= Len(toks) THEN Panic
    ELSE
    Bind(consume_expression(toks,
             IF at(toks, condition.i).t = T("ExprEnd") THEN condition.i + 1
             ELSE condition.i,
             None, TRUE), LAMBDA body :
    IF body.kind # "Ok" THEN body
    ELSE
    Bind(advance_if_type(toks, body.i, T("ExprEnd")),
         LAMBDA possible_else_idx :
    Bind(advance_if_type(toks, possible_else_idx, T("Else")),
         LAMBDA possible_else_body_start_idx :
    IF possible_else_body_start_idx > possible_else_idx
    THEN Bind(consume_expression(toks, possible_else_body_start_idx,
                                 None, FALSE), LAMBDA after_else :
         IF after_else.kind # "Ok" THEN after_else
         ELSE ParseOk(Some(IF at(toks, i).t = T("If")
                           THEN If(condition.expr, body.expr,
                                   Some(after_else.expr))
                           ELSE While(condition.expr, body.expr,
                                      Some(after_else.expr))),
                      after_else.i))
    ELSE ParseOk(Some(IF at(toks, i).t = T("If")
                      THEN If(condition.expr, body.expr, None)
                      ELSE While(condition.expr, body.expr, None)),
                 body.i)))))

\* parser.rs 381-436: func starting at token i
consume_func(toks, i) ==
    Bind(consume_expression(toks, i + 1, None, TRUE), LAMBDA decl :
    IF decl.kind # "Ok" THEN decl
    ELSE IF ~(decl.expr.e = "BinaryOperation" /\ decl.expr.op = "FunctionCall")
    THEN ParserError(toks, "function declaration expected here", i + 1)
    ELSE IF decl.expr.left.e # "Variable"
    THEN ParserError(toks, "functon name expected here", i + 1)
    ELSE
    LET func_name == decl.expr.left.name
        func_params == decl.expr.right
        j == advance_if_type(toks, decl.i, T("ExprEnd"))
    IN
    Bind(consume_expression(toks, j, None, FALSE), LAMBDA parsed_body :
    IF parsed_body.kind # "Ok" THEN parsed_body
    ELSE
    LET func_body == IF parsed_body.expr.e = "Scope"
                     THEN Scope(parsed_body.expr.body, TRUE)
                     ELSE parsed_body.expr
    IN
    ParseOk(Some(BinaryOperation("Assign", Variable(func_name),
                     Value(Function(UserDefinedFunction(func_name,
                               func_params, func_body))))),
            parsed_body.i)))

\* parser.rs 236-439
consume_operand(toks, i) ==
    IF i >= Len(toks) THEN ParseOk(None, i)
    ELSE
    LET next == at(toks, i)
        tt == next.t.tt
    IN
    CASE tt = "ExprEnd" -> ParseOk(None, i)
      [] tt = "Number" ->
           IF \E k \in 1..Len(next.lexeme) : next.lexeme[k] = "."
           THEN Bind(parse_f32(next.lexeme), LAMBDA f :
                IF f # None THEN ParseOk(Some(Value(f.some)), i + 1)
                ELSE ParserError(toks, "not a valid floating point number", i))
           ELSE Bind(parse_i32(next.lexeme), LAMBDA n :
                IF n # None THEN ParseOk(Some(Value(IntV(n.some))), i + 1)
                ELSE ParserError(toks, "not a valid integer", i))
      [] tt = "StringLiteral" ->
           Bind(slice(next.lexeme, 1, byte_len(next.lexeme) - 1), LAMBDA inner :
           IF inner.ok THEN ParseOk(Some(Value(String(inner.s))), i + 1)
           ELSE Panic)
      [] tt = "BoolLiteral" ->
           ParseOk(Some(Value(Bool(
               to_lowercase(next.lexeme) = <<"t","r","u","e">>))), i + 1)
      [] tt = "Identifier" -> ParseOk(Some(Variable(next.lexeme)), i + 1)
      [] tt = "Bracket" /\ next.t.bracket.side = "Opening" ->
           consume_bracketed(toks, i)
      [] tt \in {"If", "While"} -> consume_if_while(toks, i)
      [] tt = "Func" -> consume_func(toks, i)
      [] OTHER -> ParseOk(None, i)

(***************************************************************************)
(* values/builtins.rs, runtime.rs                                          *)
(* An environment (HashMap<String, Rc<Value>>) is a function from names to *)
(* values.  fuel bounds the number of user-function calls and loop         *)
(* iterations of one evaluation.                                           *)
(***************************************************************************)
i32_MIN == (0 - 2147483647) - 1

type_name(v) ==
    CASE v.type = "Nothing" -> "nothing"
      [] v.type = "Returned" -> "returned value"
      [] v.type = "Int" -> "integer"
      [] v.type = "Float" -> "floating point number"
      [] v.type = "String" -> "string"
      [] v.type = "Bool" -> "bool"
      [] v.type = "Tuple" -> "tuple"
      [] v.type = "Function" ->
           IF "builtin" \in DOMAIN v.func THEN "built-in function"
           ELSE "function"

\* i32::checked_add and its kin: None when the exact result leaves the range
checked_add(i1, i2) ==
    IF (i2 > 0 /\ i1 > i32_MAX - i2) \/ (i2 < 0 /\ i1 < i32_MIN - i2)
    THEN None ELSE Some(i1 + i2)
checked_sub(i1, i2) ==
    IF (i2 < 0 /\ i1 > i32_MAX + i2) \/ (i2 > 0 /\ i1 < i32_MIN + i2)
    THEN None ELSE Some(i1 - i2)
checked_mul(i1, i2) ==
    IF i1 = 0 \/ i2 = 0 THEN Some(0)
    ELSE IF i1 = i32_MIN THEN (IF i2 = 1 THEN Some(i1) ELSE None)
    ELSE IF i2 = i32_MIN THEN (IF i1 = 1 THEN Some(i2) ELSE None)
    ELSE LET q == i32_MAX \div Abs(i2)
             positive == (i1 < 0) = (i2 < 0)
         IN  IF Abs(i1) <= q THEN Some(i1 * i2)
             ELSE IF /\ ~positive
                     /\ Abs(i1) = q + 1
                     /\ i32_MAX % Abs(i2) = Abs(i2) - 1
             THEN Some(i32_MIN)
             ELSE None
checked_neg(i) == IF i = i32_MIN THEN None ELSE Some(0 - i)

\* two's complement arithmetic modulo 2^32
wrapping_add(i1, i2) ==
    IF i2 > 0 /\ i1 > i32_MAX - i2
    THEN ((i1 - i32_MAX) - 1) + ((i2 - i32_MAX) - 1)
    ELSE IF i2 < 0 /\ i1 < i32_MIN - i2
    THEN ((i1 + i32_MAX) + 1) + ((i2 + i32_MAX) + 1)
    ELSE i1 + i2
wrapping_neg(i) == IF i = i32_MIN THEN i32_MIN ELSE 0 - i
wrapping_sub(i1, i2) == wrapping_add(i1, wrapping_neg(i2))
wrapping_double(i) == wrapping_add(i, i)
\* i * digit for a digit in 0..15
wrapping_mul_digit(i, digit) ==
    wrapping_add(
        wrapping_add(IF digit % 2 = 1 THEN i ELSE 0,
                     IF (digit \div 2) % 2 = 1 THEN wrapping_double(i) ELSE 0),
        wrapping_add(IF (digit \div 4) % 2 = 1
                     THEN wrapping_double(wrapping_double(i)) ELSE 0,
                     IF (digit \div 8) % 2 = 1
                     THEN wrapping_double(wrapping_double(wrapping_double(i)))
                     ELSE 0))
\* long multiplication over the hexadecimal digits of i2
RECURSIVE wrapping_mul(_, _)
wrapping_mul(i1, i2) ==
    IF i2 = 0 THEN 0
    ELSE IF i2 = i32_MIN THEN (IF i1 % 2 = 0 THEN 0 ELSE i32_MIN)
    ELSE IF i2 < 0 THEN wrapping_neg(wrapping_mul(i1, 0 - i2))
    ELSE Bind(wrapping_mul(i1, i2 \div 16), LAMBDA high :
         wrapping_add(
             wrapping_double(wrapping_double(wrapping_double(wrapping_double(high)))),
             wrapping_mul_digit(i1, i2 % 16)))
RECURSIVE wrapping_pow(_, _)
wrapping_pow(base, e) ==
    IF e = 0 THEN 1
    ELSE Bind(wrapping_pow(base, e \div 2), LAMBDA half :
         IF e % 2 = 1
         THEN wrapping_mul(wrapping_mul(half, half), base)
         ELSE wrapping_mul(half, half))

\* an i32 operator of the source: the exact result when it is in range, and
\* otherwise what the build makes of the overflow
i32_op(checked, wrapped) ==
    IF checked # None THEN Some(IntV(checked.some))
    ELSE IF overflow_checks THEN Panic
    ELSE Some(IntV(wrapped))
i32_add(i1, i2) == i32_op(checked_add(i1, i2), wrapping_add(i1, i2))
i32_sub(i1, i2) == i32_op(checked_sub(i1, i2), wrapping_sub(i1, i2))
i32_mul(i1, i2) == i32_op(checked_mul(i1, i2), wrapping_mul(i1, i2))
i32_neg(i) == i32_op(checked_neg(i), wrapping_neg(i))

as_f32(i) == IF i > FloatLimit \/ i < 0 - FloatLimit THEN Unmodelled(Sign(i)) ELSE Float(i, 1)
IsFinite(f) == f.den > 0
IsNaN(f) == f.den = 0 /\ f.num = 0
IsUnmodelled(f) == f.den = -1

f32_add(f1, f2) ==
    IF IsNaN(f1) \/ IsNaN(f2) THEN Float(0, 0)
    ELSE IF IsFinite(f1) /\ IsFinite(f2)
    THEN Float(f1.num * f2.den + f2.num * f1.den, f1.den * f2.den)
    ELSE IF f1.den = 0 /\ f2.den = 0
    THEN IF f1.num # f2.num THEN Float(0, 0) ELSE f1
    ELSE IF f1.den = 0 THEN f1
    ELSE IF f2.den = 0 THEN f2
    ELSE Unmodelled(IF IsUnmodelled(f1) THEN f1.num ELSE f2.num)
f32_neg(f) == [type |-> "Float", num |-> 0 - f.num, den |-> f.den]
f32_sub(f1, f2) == f32_add(f1, f32_neg(f2))
f32_mul(f1, f2) ==
    IF IsNaN(f1) \/ IsNaN(f2) THEN Float(0, 0)
    ELSE IF IsFinite(f1) /\ IsFinite(f2)
    THEN Float(f1.num * f2.num, f1.den * f2.den)
    ELSE IF f1.den = 0 \/ f2.den = 0
    THEN IF f1.num = 0 \/ f2.num = 0 THEN Float(0, 0)
         ELSE Float(Sign(f1.num) * Sign(f2.num), 0)
    ELSE Unmodelled(Sign(f1.num) * Sign(f2.num))
f32_recip(f) ==
    IF IsNaN(f) THEN f
    ELSE IF IsFinite(f)
    THEN IF f.num = 0 THEN Float(1, 0) ELSE Float(f.den * Sign(f.num), Abs(f.num))
    ELSE IF f.den = 0 THEN Float(0, 1)
    ELSE Unmodelled(f.num)
f32_div(f1, f2) ==
    IF IsFinite(f1) /\ IsFinite(f2) /\ f2.num = 0 THEN Float(f1.num, 0)
    ELSE IF f1.den = 0 /\ f2.den = 0 THEN Float(0, 0)
    ELSE f32_mul(f1, f32_recip(f2))
f32_lt(f1, f2) ==
    IF IsNaN(f1) \/ IsNaN(f2) THEN FALSE
    ELSE IF IsFinite(f1) /\ IsFinite(f2)
    THEN f1.num * f2.den < f2.num * f1.den
    ELSE IF f1.den = 0 /\ f2.den = 0 THEN f1.num < f2.num
    ELSE IF f1.den = 0 THEN f1.num < 0
    ELSE IF f2.den = 0 THEN f2.num > 0
    ELSE IF IsUnmodelled(f1) THEN f1.num < 0 ELSE f2.num > 0
f32_eq(f1, f2) == ~IsNaN(f1) /\ ~IsNaN(f2) /\ f1 = f2

\* base^e for e >= 0, by squaring; None when the value leaves the i32 range
RECURSIVE checked_pow(_, _)
checked_pow(base, e) ==
    IF e = 0 THEN Some(1)
    ELSE IF base \in {0, 1} THEN Some(base)
    ELSE IF base = -1 THEN Some(IF e % 2 = 0 THEN 1 ELSE -1)
    ELSE Bind(checked_pow(base, e \div 2), LAMBDA half :
         IF half = None THEN None
         ELSE Bind(checked_mul(half.some, half.some), LAMBDA square :
              IF square = None THEN None
              ELSE IF e % 2 = 1 THEN checked_mul(square.some, base)
              ELSE square))
\* i32::pow
i32_pow(base, e) == i32_op(checked_pow(base, e), wrapping_pow(base, e))
\* f32::powi
f32_powi(f, e) ==
    IF IsNaN(f) THEN f
    ELSE IF e = 0 THEN Float(1, 1)
    ELSE IF IsUnmodelled(f) THEN Unmodelled(1)
    ELSE IF f.den = 0
    THEN IF e < 0 THEN Float(0, 1)
         ELSE Float(IF f.num < 0 /\ e % 2 = 1 THEN -1 ELSE 1, 0)
    ELSE LET n == checked_pow(f.num, Abs(e))
             d == checked_pow(f.den, Abs(e))
             p == IF n = None \/ d = None
                  THEN Unmodelled(IF f.num < 0 /\ e % 2 = 1 THEN -1 ELSE 1)
                  ELSE Float(n.some, d.some)
         IN  IF e >= 0 THEN p ELSE f32_recip(p)

RECURSIVE Repeat(_, _)
Repeat(str, n) == IF n = 0 THEN <<>> ELSE str \o Repeat(str, n - 1)

\* runtime.rs 269-283
add(a, b) ==
    CASE a.type = "Float" /\ b.type = "Float" -> Some(f32_add(a, b))
      [] a.type = "Int" /\ b.type = "Float" -> Some(f32_add(as_f32(a.int), b))
      [] a.type = "Float" /\ b.type = "Int" -> Some(f32_add(as_f32(b.int), a))
      [] a.type = "Int" /\ b.type = "Int" -> i32_add(a.int, b.int)
      [] a.type = "String" /\ b.type = "String" -> Some(String(a.str \o b.str))
      [] a.type = "Bool" /\ b.type = "Bool" -> Some(Bool(a.bool \/ b.bool))
      [] OTHER -> None
\* runtime.rs 284-292
sub(a, b) ==
    CASE a.type = "Float" /\ b.type = "Float" -> Some(f32_sub(a, b))
      [] a.type = "Int" /\ b.type = "Float" -> Some(f32_sub(as_f32(a.int), b))
      [] a.type = "Float" /\ b.type = "Int" -> Some(f32_sub(a, as_f32(b.int)))
      [] a.type = "Int" /\ b.type = "Int" -> i32_sub(a.int, b.int)
      [] OTHER -> None
\* runtime.rs 293-303
mul(a, b) ==
    CASE a.type = "Float" /\ b.type = "Float" -> Some(f32_mul(a, b))
      [] a.type = "Int" /\ b.type = "Float" -> Some(f32_mul(as_f32(a.int), b))
      [] a.type = "Float" /\ b.type = "Int" -> Some(f32_mul(as_f32(b.int), a))
      [] a.type = "Int" /\ b.type = "Int" -> i32_mul(a.int, b.int)
      [] a.type = "String" /\ b.type = "Int" ->
           IF b.int < 0 /\ Len(a.str) > 0 THEN Panic
           ELSE Some(String(Repeat(a.str, IF b.int < 0 THEN 0 ELSE b.int)))
      [] a.type = "Bool" /\ b.type = "Bool" -> Some(Bool(a.bool /\ b.bool))
      [] OTHER -> None
\* runtime.rs 304-312
div(a, b) ==
    CASE a.type = "Float" /\ b.type = "Float" -> Some(f32_div(a, b))
      [] a.type = "Int" /\ b.type = "Float" -> Some(f32_div(as_f32(a.int), b))
      [] a.type = "Float" /\ b.type = "Int" -> Some(f32_div(a, as_f32(b.int)))
      [] a.type = "Int" /\ b.type = "Int" ->
           Some(f32_div(as_f32(a.int), as_f32(b.int)))
      [] OTHER -> None
\* runtime.rs 313-326; powf is modelled for integral exponents only
pow(a, b) ==
    CASE a.type = "Float" /\ b.type = "Float" ->
           IF b.den = 1 THEN Some(f32_powi(a, b.num)) ELSE Some(Float(0, 0))
      [] a.type = "Int" /\ b.type = "Float" ->
           IF b.den = 1 THEN Some(f32_powi(as_f32(a.int), b.num))
           ELSE Some(Float(0, 0))
      [] a.type = "Float" /\ b.type = "Int" -> Some(f32_powi(a, b.int))
      [] a.type = "Int" /\ b.type = "Int" ->
           IF b.int > 0
           THEN i32_pow(a.int, b.int)
           ELSE Some(f32_powi(as_f32(a.int), b.int))
      [] a.type = "Bool" /\ b.type = "Bool" -> Some(Bool(a.bool # b.bool))
      [] OTHER -> None
\* runtime.rs 327-335
lt(a, b) ==
    CASE a.type = "Float" /\ b.type = "Float" -> Some(Bool(f32_lt(a, b)))
      [] a.type = "Int" /\ b.type = "Float" ->
           Some(Bool(f32_lt(as_f32(a.int), b)))
      [] a.type = "Float" /\ b.type = "Int" ->
           Some(Bool(f32_lt(a, as_f32(b.int))))
      [] a.type = "Int" /\ b.type = "Int" -> Some(Bool(a.int < b.int))
      [] OTHER -> None
\* runtime.rs 336-344
gt(a, b) ==
    CASE a.type = "Float" /\ b.type = "Float" -> Some(Bool(f32_lt(b, a)))
      [] a.type = "Int" /\ b.type = "Float" ->
           Some(Bool(f32_lt(b, as_f32(a.int))))
      [] a.type = "Float" /\ b.type = "Int" ->
           Some(Bool(f32_lt(as_f32(b.int), a)))
      [] a.type = "Int" /\ b.type = "Int" -> Some(Bool(a.int > b.int))
      [] OTHER -> None
\* runtime.rs 345-351
eq(a, b) ==
    CASE a.type = "Int" /\ b.type = "Float" ->
           Some(Bool(f32_eq(as_f32(a.int), b)))
      [] a.type = "Float" /\ b.type = "Int" ->
           Some(Bool(f32_eq(a, as_f32(b.int))))
      [] a.type = "Float" /\ b.type = "Float" -> Some(Bool(f32_eq(a, b)))
      [] OTHER -> Some(Bool(a = b))
\* runtime.rs 353-360
neg(v) ==
    CASE v.type = "Float" -> Some(f32_neg(v))
      [] v.type = "Int" -> i32_neg(v.int)
      [] v.type = "Bool" -> Some(Bool(~v.bool))
      [] OTHER -> None

\* i32 remainder, which takes the sign of the dividend; i2 # 0
rem(i1, i2) ==
    IF i2 = i32_MIN THEN (IF i1 = i32_MIN THEN 0 ELSE i1)
    ELSE LET m == i1 % Abs(i2) IN
         IF i1 >= 0 \/ m = 0 THEN m ELSE m - Abs(i2)

\* values/builtins.rs 8-49; ln and exp are modelled at 1 and 0 only, and
\* random by its lower bound
builtin_call(name, arg) ==
    CASE name = "log" ->
           IF arg.type \in {"Float", "Int"}
           THEN LET f == IF arg.type = "Int" THEN as_f32(arg.int) ELSE arg IN
                [ok |-> TRUE,
                 v |-> IF f = Float(1, 1) THEN Float(0, 1) ELSE Float(0, 0)]
           ELSE [ok |-> FALSE,
                 errmsg |-> <<"log", "built-in function is not defined for arg of type", type_name(arg)>>]
      [] name = "exp" ->
           IF arg.type \in {"Float", "Int"}
           THEN LET f == IF arg.type = "Int" THEN as_f32(arg.int) ELSE arg IN
                [ok |-> TRUE,
                 v |-> IF f = Float(0, 1) THEN Float(1, 1) ELSE Float(0, 0)]
           ELSE [ok |-> FALSE,
                 errmsg |-> <<"exp", "built-in function is not defined for arg of type", type_name(arg)>>]
      [] name = "print" -> [ok |-> TRUE, v |-> Nothing]
      [] name = "length" ->
           IF arg.type = "String"
           THEN [ok |-> TRUE, v |-> IntV(byte_len(arg.str))]
           ELSE [ok |-> FALSE,
                 errmsg |-> <<"length", "built-in function is not defined for arg of type", type_name(arg)>>]
      [] name = "random" ->
           IF arg.type = "Nothing" THEN [ok |-> TRUE, v |-> Float(0, 1)]
           ELSE [ok |-> FALSE,
                 errmsg |-> <<"\"random\" built-in function accepts no arguments">>]
      [] name = "mod" ->
           IF /\ arg.type = "Tuple"
              /\ Len(arg.elems) = 2
              /\ arg.elems[1].type = "Int"
              /\ arg.elems[2].type = "Int"
           THEN LET i1 == arg.elems[1].int
                    i2 == arg.elems[2].int
                IN  IF i2 = 0 \/ (i1 = i32_MIN /\ i2 = -1) THEN Panic
                    ELSE [ok |-> TRUE,
                          v |-> IntV(rem(i1, i2))]
           ELSE [ok |-> FALSE,
                 errmsg |-> <<"\"mod\" accepts two integer arguments">>]

\* values/builtins.rs 51-61
builtin(name) ==
    CASE name = <<"l","o","g">> -> Some(Builtin("log"))
      [] name = <<"e","x","p">> -> Some(Builtin("exp"))
      [] name = <<"p","r","i","n","t">> -> Some(Builtin("print"))
      [] name = <<"l","e","n","g","t","h">> -> Some(Builtin("length"))
      [] name = <<"r","a","n","d","o","m">> -> Some(Builtin("random"))
      [] name = <<"m","o","d">> -> Some(Builtin("mod"))
      [] OTHER -> None

EvalOk(v, env) == [kind |-> "Ok", value |-> v, vars |-> env]
RuntimeError(errmsg, env) == [kind |-> "Err", errmsg |-> errmsg, vars |-> env]
OutOfFuel == [kind |-> "OutOfFuel"]

\* runtime.rs 11-24 and 116-136: the operator applied to two values
apply_bin(op, left_value, right_value, env) ==
    LET op_name ==
            CASE op = "Add" -> "addition" [] op = "Sub" -> "subtraction"
              [] op = "Mul" -> "multiplication" [] op = "Div" -> "division"
              [] op = "Pow" -> "power" [] op = "IsEq" -> "equality"
              [] op = "IsLt" -> "less-than" [] op = "IsGt" -> "greater-than"
              [] OTHER -> ""
    IN
    CASE op = "FormTuple" -> EvalOk(Tuple(<<left_value, right_value>>), env)
      [] op = "AppendToTuple" ->
           IF left_value.type = "Tuple"
           THEN EvalOk(Tuple(Append(left_value.elems, right_value)), env)
           ELSE RuntimeError(
                    <<"internal error: can't append to non-tuple value">>, env)
      [] OTHER ->
           Bind(CASE op = "Add" -> add(left_value, right_value)
                  [] op = "Sub" -> sub(left_value, right_value)
                  [] op = "Mul" -> mul(left_value, right_value)
                  [] op = "Div" -> div(left_value, right_value)
                  [] op = "Pow" -> pow(left_value, right_value)
                  [] op = "IsEq" -> eq(left_value, right_value)
                  [] op = "IsLt" -> lt(left_value, right_value)
                  [] op = "IsGt" -> gt(left_value, right_value),
                LAMBDA maybe_res :
           IF maybe_res = Panic THEN Panic
           ELSE IF maybe_res = None
           THEN RuntimeError(<<op_name, "is not defined for",
                               type_name(left_value), "and",
                               type_name(right_value)>>, env)
           ELSE EvalOk(maybe_res.some, env))

\* a lookup that consults the builtin registry before the environment
eval_variable_builtin_first(var_name, env) ==
    IF builtin(var_name) # None
    THEN EvalOk(Function(builtin(var_name).some), env)
    ELSE IF var_name \in DOMAIN env THEN EvalOk(env[var_name], env)
    ELSE RuntimeError(<<"reference to non-existent variable", var_name>>, env)

\* runtime.rs 53-64: the value of a variable
eval_variable(var_name, env) ==
    IF var_name \in DOMAIN env THEN EvalOk(env[var_name], env)
    ELSE IF builtin(var_name) # None
    THEN EvalOk(Function(builtin(var_name).some), env)
    ELSE RuntimeError(<<"reference to non-existent variable", var_name>>, env)

RECURSIVE eval(_, _, _)
RECURSIVE eval_scope_body(_, _, _, _, _)
RECURSIVE eval_scope_body_forwards(_, _, _, _, _)
RECURSIVE eval_scope_body_on_clone(_, _, _, _, _)
RECURSIVE call_user_defined(_, _, _, _)
RECURSIVE call_user_defined_in_caller_vars(_, _, _, _)
RECURSIVE call_user_defined_in_fresh_vars(_, _, _, _)
RECURSIVE eval_while(_, _, _, _, _)
RECURSIVE eval_assignment(_, _, _, _)
RECURSIVE eval_while_ignores_return(_, _, _, _, _)
RECURSIVE eval_scope_body_entry_vars(_, _, _, _, _)
RECURSIVE eval_ltr_op(_, _, _, _, _)
RECURSIVE eval_ltr_op_left_first(_, _, _, _, _)
RECURSIVE eval_assignment_evaluated_first(_, _, _, _)
RECURSIVE eval_assignment_right_first(_, _, _, _)

\* a scope that forwards the sentinel whether it is returnable or not
eval_scope_body_forwards(body, is_returnable, k, env, fuel) ==
    Bind(eval(body[k], env, fuel), LAMBDA r :
    IF r.kind # "Ok" THEN r
    ELSE IF r.value.type = "Returned" THEN EvalOk(r.value, r.vars)
    ELSE IF k = Len(body) THEN EvalOk(r.value, r.vars)
    ELSE eval_scope_body(body, is_returnable, k + 1, r.vars, fuel))

\* a scope that works on a copy of vars and drops the copy at its end
eval_scope_body_on_clone(body, is_returnable, k, env, fuel) ==
    Bind(eval(body[k], env, fuel), LAMBDA r :
    IF r.kind # "Ok" THEN r
    ELSE IF r.value.type = "Returned"
    THEN IF is_returnable THEN EvalOk(r.value.inner, env)
         ELSE EvalOk(r.value, env)
    ELSE IF k = Len(body) THEN EvalOk(r.value, env)
    ELSE Bind(eval_scope_body(body, is_returnable, k + 1, r.vars, fuel),
              LAMBDA rest :
              IF rest.kind = "Ok" THEN EvalOk(rest.value, env) ELSE rest))

\* a scope that evaluates every statement against the vars it was entered
\* with, without the bindings of the statements before
eval_scope_body_entry_vars(body, is_returnable, k, env, fuel) ==
    Bind(eval(body[k], env, fuel), LAMBDA r :
    IF r.kind # "Ok" THEN r
    ELSE IF r.value.type = "Returned"
    THEN IF is_returnable THEN EvalOk(r.value.inner, r.vars)
         ELSE EvalOk(r.value, r.vars)
    ELSE IF k = Len(body) THEN EvalOk(r.value, r.vars)
    ELSE eval_scope_body(body, is_returnable, k + 1, env, fuel))

\* runtime.rs 72-85: the statements of a scope from index k on
eval_scope_body(body, is_returnable, k, env, fuel) ==
    Bind(eval(body[k], env, fuel), LAMBDA r :
    IF r.kind # "Ok" THEN r
    ELSE IF r.value.type = "Returned"
    THEN IF is_returnable THEN EvalOk(r.value.inner, r.vars)
         ELSE EvalOk(r.value, r.vars)
    ELSE IF k = Len(body) THEN EvalOk(r.value, r.vars)
    ELSE eval_scope_body(body, is_returnable, k + 1, r.vars, fuel))

\* a loop that goes on after a body whose value is Returned
eval_while_ignores_return(condition, body, last_result, env, fuel) ==
    Bind(eval(condition, env, fuel), LAMBDA c :
    IF c.kind # "Ok" THEN c
    ELSE IF c.value.type # "Bool"
    THEN RuntimeError(<<"while loop condition must evaluate to bool, got",
                        type_name(c.value)>>, c.vars)
    ELSE IF ~c.value.bool THEN EvalOk(last_result, c.vars)
    ELSE IF fuel = 0 THEN OutOfFuel
    ELSE
    Bind(eval(body, c.vars, fuel - 1), LAMBDA b :
    IF b.kind # "Ok" THEN b
    ELSE eval_while(condition, body, b.value, b.vars, fuel - 1)))

\* runtime.rs 174-192: the loop from one evaluation of the condition on
eval_while(condition, body, last_result, env, fuel) ==
    Bind(eval(condition, env, fuel), LAMBDA c :
    IF c.kind # "Ok" THEN c
    ELSE IF c.value.type # "Bool"
    THEN RuntimeError(<<"while loop condition must evaluate to bool, got",
                        type_name(c.value)>>, c.vars)
    ELSE IF ~c.value.bool THEN EvalOk(last_result, c.vars)
    ELSE IF fuel = 0 THEN OutOfFuel
    ELSE
    Bind(eval(body, c.vars, fuel - 1), LAMBDA b :
    IF b.kind # "Ok" THEN b
    ELSE IF b.value.type = "Returned" THEN b
    ELSE eval_while(condition, body, b.value, b.vars, fuel - 1)))

\* a call that binds the parameters and runs the body in the caller's vars
call_user_defined_in_caller_vars(func, right, env, fuel) ==
    Bind(eval_assignment(func.params, right, env, fuel - 1), LAMBDA bound :
    IF bound.kind # "Ok" THEN bound
    ELSE eval(func.body, bound.vars, fuel - 1))

\* a call whose local_vars start empty instead of as a clone of vars
call_user_defined_in_fresh_vars(func, right, env, fuel) ==
    Bind(eval_assignment(func.params, right, <<>>, fuel - 1), LAMBDA bound :
    IF bound.kind \notin {"Ok", "Err"} THEN bound
    ELSE IF bound.kind = "Err" THEN RuntimeError(bound.errmsg, env)
    ELSE Bind(eval(func.body, bound.vars, fuel - 1), LAMBDA res :
         IF res.kind = "Ok" THEN EvalOk(res.value, env)
         ELSE IF res.kind = "Err" THEN RuntimeError(res.errmsg, env)
         ELSE res))

\* runtime.rs 99-104: local_vars is a clone of vars, which the parameters
\* are bound in and the body runs in; the caller's vars stay as they are
call_user_defined(func, right, env, fuel) ==
    Bind(eval_assignment(func.params, right, env, fuel - 1), LAMBDA bound :
    IF bound.kind \notin {"Ok", "Err"} THEN bound
    ELSE IF bound.kind = "Err" THEN RuntimeError(bound.errmsg, env)
    ELSE Bind(eval(func.body, bound.vars, fuel - 1), LAMBDA res :
         IF res.kind = "Ok" THEN EvalOk(res.value, env)
         ELSE IF res.kind = "Err" THEN RuntimeError(res.errmsg, env)
         ELSE res))

\* a binary operation that evaluates its left operand before its right one
eval_ltr_op_left_first(op, left, right, env, fuel) ==
    Bind(eval(left, env, fuel), LAMBDA l :
    IF l.kind # "Ok" THEN l
    ELSE Bind(eval(right, l.vars, fuel), LAMBDA r :
         IF r.kind # "Ok" THEN r
         ELSE apply_bin(op, l.value, r.value, r.vars)))

\* runtime.rs 113-138: a binary operation other than Assign and FunctionCall
eval_ltr_op(op, left, right, env, fuel) ==
    Bind(eval(right, env, fuel), LAMBDA r :
    IF r.kind # "Ok" THEN r
    ELSE Bind(eval(left, r.vars, fuel), LAMBDA l :
         IF l.kind # "Ok" THEN l
         ELSE apply_bin(op, l.value, r.value, l.vars)))

\* runtime.rs 39-195
eval(expression, env, fuel) ==
    CASE expression.e = "Value" -> EvalOk(expression.v, env)
      [] expression.e = "Variable" ->
           eval_variable(expression.name, env)
      [] expression.e = "Scope" ->
           IF expression.body = <<>> THEN EvalOk(Nothing, env)
           ELSE eval_scope_body(expression.body, expression.is_returnable, 1,
                                env, fuel)
      [] expression.e = "BinaryOperation" /\ expression.op = "Assign" ->
           eval_assignment(expression.left, expression.right, env, fuel)
      [] expression.e = "BinaryOperation" /\ expression.op = "FunctionCall" ->
           Bind(eval(expression.left, env, fuel), LAMBDA l :
           IF l.kind # "Ok" THEN l
           ELSE IF l.value.type # "Function"
           THEN RuntimeError(<<type_name(l.value), "is not callable">>, l.vars)
           ELSE IF "builtin" \in DOMAIN l.value.func
           THEN Bind(eval(expression.right, l.vars, fuel), LAMBDA arg :
                IF arg.kind # "Ok" THEN arg
                ELSE Bind(builtin_call(l.value.func.builtin, arg.value),
                          LAMBDA res :
                         IF res = Panic THEN Panic
                         ELSE IF res.ok THEN EvalOk(res.v, arg.vars)
                         ELSE RuntimeError(res.errmsg, arg.vars)))
           ELSE IF fuel = 0 THEN OutOfFuel
           ELSE
           call_user_defined(l.value.func, expression.right, l.vars, fuel))
      [] expression.e = "BinaryOperation" ->
           eval_ltr_op(expression.op, expression.left, expression.right, env,
                       fuel)
      [] expression.e = "UnaryOperation" ->
           Bind(eval(expression.operand, env, fuel), LAMBDA operand :
           IF operand.kind # "Ok" THEN operand
           ELSE IF expression.op = "Return"
           THEN EvalOk(Returned(operand.value), operand.vars)
           ELSE Bind(neg(operand.value), LAMBDA maybe_res :
                IF maybe_res = Panic THEN Panic
                ELSE IF maybe_res = None
                THEN RuntimeError(<<"negation is not defined for",
                                    type_name(operand.value)>>, operand.vars)
                ELSE EvalOk(maybe_res.some, operand.vars)))
      [] expression.e = "If" ->
           Bind(eval(expression.condition, env, fuel), LAMBDA c :
           IF c.kind # "Ok" THEN c
           ELSE IF c.value.type # "Bool"
           THEN RuntimeError(<<"if condition must evaluate to bool, got",
                               type_name(c.value)>>, c.vars)
           ELSE IF c.value.bool THEN eval(expression.if_true, c.vars, fuel)
           ELSE IF expression.if_false # None
           THEN eval(expression.if_false.some, c.vars, fuel)
           ELSE EvalOk(Nothing, c.vars))
      [] expression.e = "While" ->
           eval_while(expression.condition, expression.body, Nothing, env,
                      fuel)

\* an assignment that takes the right sub-pattern before the left one
eval_assignment_right_first(left, right, env, fuel) ==
    CASE left.e = "Variable" ->
           Bind(eval(right, env, fuel), LAMBDA r :
           IF r.kind # "Ok" THEN r
           ELSE EvalOk(r.value, (left.name :> r.value) @@ r.vars))
      [] left.e = "BinaryOperation" ->
           IF right.e # "BinaryOperation"
           THEN RuntimeError(<<"right-hand side of the assignment doesn't match the pattern, expected binary operation">>, env)
           ELSE IF left.op # right.op
           THEN RuntimeError(<<"right-hand side of the assignment doesn't match the pattern, expected binary operation", left.op>>, env)
           ELSE
           Bind(eval_assignment(left.right, right.right, env, fuel),
                LAMBDA res_right :
           IF res_right.kind # "Ok" THEN res_right
           ELSE
           Bind(eval_assignment(left.left, right.left, res_right.vars, fuel),
                LAMBDA res_left :
           IF res_left.kind # "Ok" THEN res_left
           ELSE eval(BinaryOperation(left.op, Value(res_left.value),
                                     Value(res_right.value)),
                     res_left.vars, fuel)))
      [] left.e = "UnaryOperation" ->
           IF right.e # "UnaryOperation"
           THEN RuntimeError(<<"right-hand side of the assignment doesn't match the pattern, expected unary operation">>, env)
           ELSE IF left.op # right.op
           THEN RuntimeError(<<"right-hand side of the assignment doesn't match the pattern, expected unary operation", left.op>>, env)
           ELSE
           Bind(eval_assignment(left.operand, right.operand, env, fuel),
                LAMBDA res_operand :
           IF res_operand.kind # "Ok" THEN res_operand
           ELSE eval(UnaryOperation(left.op, Value(res_operand.value)),
                     res_operand.vars, fuel))
      [] OTHER ->
           RuntimeError(<<"assignment is only possible to a variable or a simple expression">>, env)

\* an assignment that evaluates its right side before it looks at the
\* shapes, and so fails with the vars and the errors of that evaluation
eval_assignment_evaluated_first(left, right, env, fuel) ==
    CASE left.e = "Variable" ->
           Bind(eval(right, env, fuel), LAMBDA r :
           IF r.kind # "Ok" THEN r
           ELSE EvalOk(r.value, (left.name :> r.value) @@ r.vars))
      [] left.e = "BinaryOperation" ->
           IF right.e # "BinaryOperation"
           THEN Bind(eval(right, env, fuel), LAMBDA r :
                IF r.kind # "Ok" THEN r
                ELSE RuntimeError(<<"right-hand side of the assignment doesn't match the pattern, expected binary operation">>, r.vars))
           ELSE IF left.op # right.op
           THEN Bind(eval(right, env, fuel), LAMBDA r :
                IF r.kind # "Ok" THEN r
                ELSE RuntimeError(<<"right-hand side of the assignment doesn't match the pattern, expected binary operation", left.op>>, r.vars))
           ELSE
           Bind(eval_assignment(left.left, right.left, env, fuel),
                LAMBDA res_left :
           IF res_left.kind # "Ok" THEN res_left
           ELSE
           Bind(eval_assignment(left.right, right.right, res_left.vars, fuel),
                LAMBDA res_right :
           IF res_right.kind # "Ok" THEN res_right
           ELSE eval(BinaryOperation(left.op, Value(res_left.value),
                                     Value(res_right.value)),
                     res_right.vars, fuel)))
      [] left.e = "UnaryOperation" ->
           IF right.e # "UnaryOperation"
           THEN Bind(eval(right, env, fuel), LAMBDA r :
                IF r.kind # "Ok" THEN r
                ELSE RuntimeError(<<"right-hand side of the assignment doesn't match the pattern, expected unary operation">>, r.vars))
           ELSE IF left.op # right.op
           THEN Bind(eval(right, env, fuel), LAMBDA r :
                IF r.kind # "Ok" THEN r
                ELSE RuntimeError(<<"right-hand side of the assignment doesn't match the pattern, expected unary operation", left.op>>, r.vars))
           ELSE
           Bind(eval_assignment(left.operand, right.operand, env, fuel),
                LAMBDA res_operand :
           IF res_operand.kind # "Ok" THEN res_operand
           ELSE eval(UnaryOperation(left.op, Value(res_operand.value)),
                     res_operand.vars, fuel))
      [] OTHER ->
           Bind(eval(right, env, fuel), LAMBDA r :
                IF r.kind # "Ok" THEN r
                ELSE RuntimeError(<<"assignment is only possible to a variable or a simple expression">>, r.vars))

\* runtime.rs 197-267
eval_assignment(left, right, env, fuel) ==
    CASE left.e = "Variable" ->
           Bind(eval(right, env, fuel), LAMBDA r :
           IF r.kind # "Ok" THEN r
           ELSE EvalOk(r.value, (left.name :> r.value) @@ r.vars))
      [] left.e = "BinaryOperation" ->
           IF right.e # "BinaryOperation"
           THEN RuntimeError(<<"right-hand side of the assignment doesn't match the pattern, expected binary operation">>, env)
           ELSE IF left.op # right.op
           THEN RuntimeError(<<"right-hand side of the assignment doesn't match the pattern, expected binary operation", left.op>>, env)
           ELSE
           Bind(eval_assignment(left.left, right.left, env, fuel),
                LAMBDA res_left :
           IF res_left.kind # "Ok" THEN res_left
           ELSE
           Bind(eval_assignment(left.right, right.right, res_left.vars, fuel),
                LAMBDA res_right :
           IF res_right.kind # "Ok" THEN res_right
           ELSE eval(BinaryOperation(left.op, Value(res_left.value),
                                     Value(res_right.value)),
                     res_right.vars, fuel)))
      [] left.e = "UnaryOperation" ->
           IF right.e # "UnaryOperation"
           THEN RuntimeError(<<"right-hand side of the assignment doesn't match the pattern, expected unary operation">>, env)
           ELSE IF left.op # right.op
           THEN RuntimeError(<<"right-hand side of the assignment doesn't match the pattern, expected unary operation", left.op>>, env)
           ELSE
           Bind(eval_assignment(left.operand, right.operand, env, fuel),
                LAMBDA res_operand :
           IF res_operand.kind # "Ok" THEN res_operand
           ELSE eval(UnaryOperation(left.op, Value(res_operand.value)),
                     res_operand.vars, fuel))
      [] OTHER ->
           RuntimeError(<<"assignment is only possible to a variable or a simple expression">>, env)

(***************************************************************************)
(* The tokenizer's specification: tokenize applied to every source text of *)
(* at most MaxCodeLen chars over SourceChars, then to the same text with   *)
(* one whitespace char removed or inserted.                                *)
(***************************************************************************)
SourceChars == {"1", "a", "=", " ", "+", ";", "\"", "U+00E9"}

RECURSIVE SeqsUpTo(_, _)
SeqsUpTo(S, n) ==
    IF n = 0 THEN {<<>>}
    ELSE LET shorter == SeqsUpTo(S, n - 1) IN
         shorter \cup {Append(q, x) : q \in {r \in shorter : Len(r) = n - 1},
                                      x \in S}

RemoveAt(s, p) == SubSeq(s, 1, p - 1) \o SubSeq(s, p + 1, Len(s))
InsertAt(s, p, ch) == SubSeq(s, 1, p) \o <<ch>> \o SubSeq(s, p + 1, Len(s))

TokenizerInit ==
    /\ code \in SeqsUpTo(SourceChars, MaxCodeLen)
    /\ tokResult = NotRun
    /\ code2 = <<>>
    /\ tokResult2 = NotRun
    /\ wsEdit = None
    /\ stack = new /\ fed = <<>> /\ results = <<>>
    /\ tokens = <<>> /\ parseResult = NotRun /\ evalResult = NotRun
    /\ overflow_checks = TRUE
    /\ pc = "exit" /\ command = None /\ verbose = 0
    /\ output = <<>> /\ file = None

Tokenize ==
    /\ tokResult = NotRun
    /\ tokResult' = tokenize(code)
    /\ UNCHANGED <<code, code2, tokResult2, wsEdit, bracketVars, parserVars,
                 overflow_checks, mainVars>>

RemoveWhitespace ==
    /\ tokResult # NotRun
    /\ tokResult2 = NotRun
    /\ \E p \in 1..Len(code) :
          /\ is_whitespace(code[p])
          /\ code2' = RemoveAt(code, p)
          /\ wsEdit' = [edit |-> "remove", at |-> p]
    /\ tokResult2' = tokenize(code2')
    /\ UNCHANGED <<code, tokResult, bracketVars, parserVars,
                 overflow_checks, mainVars>>

InsertWhitespace ==
    /\ tokResult # NotRun
    /\ tokResult2 = NotRun
    /\ \E p \in 0..Len(code) :
          /\ code2' = InsertAt(code, p, " ")
          /\ wsEdit' = [edit |-> "insert", at |-> p]
    /\ tokResult2' = tokenize(code2')
    /\ UNCHANGED <<code, tokResult, bracketVars, parserVars,
                 overflow_checks, mainVars>>

TokenizerNext == Tokenize \/ RemoveWhitespace \/ InsertWhitespace

SpecTokenizer == TokenizerInit /\ [][TokenizerNext]_vars

(***************************************************************************)
(* The parser's specification: parse applied to token sequences built from *)
(* operator chains, comma lists and the examples of the tests, then eval   *)
(* applied to the tree in an empty environment.                            *)
(***************************************************************************)
MaxOps == 3
MaxElems == 3
EvalFuel == 3

Digit(n) == ToString(n)
RECURSIVE Decimal(_)
Decimal(n) ==
    IF n < 10 THEN <<Digit(n)>> ELSE Append(Decimal(n \div 10), Digit(n % 10))
Number(n) == Token(T("Number"), Decimal(n))
Identifier(ch) == Token(T("Identifier"), <<ch>>)
Plus == Token(T("Plus"), <<"+">>)
Minus == Token(T("Minus"), <<"-">>)
Star == Token(T("Star"), <<"*">>)
Slash == Token(T("Slash"), <<"/">>)
Caret == Token(T("Caret"), <<"^">>)
Equals == Token(T("Equals"), <<"=">>)
DoubleEquals == Token(T("DoubleEquals"), <<"=", "=">>)
LeftAngle == Token(T("LeftAngle"), <<"<">>)
RightAngle == Token(T("RightAngle"), <<">">>)
Comma == Token(T("Comma"), <<",">>)
ExprEnd == Token(T("ExprEnd"), <<";">>)
RoundOpen == Token(BracketToken("Round", "Opening"), <<"(">>)
RoundClose == Token(BracketToken("Round", "Closing"), <<")">>)

\* the binary operators as they appear between operands; Call stands for a
\* round-bracketed operand directly after the left operand
OpSyms == {"Plus", "Minus", "Star", "Slash", "Caret", "Equals",
           "DoubleEquals", "LeftAngle", "RightAngle", "Comma", "Call"}

OpToken(sym) ==
    CASE sym = "Plus" -> Plus [] sym = "Minus" -> Minus
      [] sym = "Star" -> Star [] sym = "Slash" -> Slash
      [] sym = "Caret" -> Caret [] sym = "Equals" -> Equals
      [] sym = "DoubleEquals" -> DoubleEquals
      [] sym = "LeftAngle" -> LeftAngle
      [] sym = "RightAngle" -> RightAngle
      [] sym = "Comma" -> Comma

\* the tokens of operand k, negated when k = negAt
OperandTokens(k, negAt) ==
    IF k = negAt THEN <<Minus, Number(k)>> ELSE <<Number(k)>>

\* 1 ops[1] 2 ops[2] 3 ..., without the terminator
RECURSIVE ChainTokens(_, _, _)
ChainTokens(ops, negAt, n) ==
    IF n = 0 THEN OperandTokens(1, negAt)
    ELSE ChainTokens(ops, negAt, n - 1) \o
         (IF ops[n] = "Call"
          THEN <<RoundOpen>> \o OperandTokens(n + 1, negAt) \o <<RoundClose>>
          ELSE <<OpToken(ops[n])>> \o OperandTokens(n + 1, negAt))

Chain(ops, negAt) == Append(ChainTokens(ops, negAt, Len(ops)), ExprEnd)

ChainInputs ==
    {Chain(ops, negAt) :
        ops \in (SeqsUpTo(OpSyms, MaxOps) \ {<<>>}), negAt \in 0..2}

\* element i of a comma list: the number i (kind 0) or a round-bracketed list
\* of kind numbers i+1, i+2, ...
RECURSIVE CommaList(_, _)
ElementTokens(i, kind) ==
    IF kind = 0 THEN <<Number(i)>>
    ELSE <<RoundOpen>> \o CommaList([j \in 1..kind |-> Number(i + j)], kind)
                       \o <<RoundClose>>
CommaList(elems, n) ==
    IF n = 1 THEN <<elems[1]>>
    ELSE CommaList(elems, n - 1) \o <<Comma, elems[n]>>

RECURSIVE ListTokens(_, _)
ListTokens(kindSeq, n) ==
    IF n = 1 THEN ElementTokens(1, kindSeq[1])
    ELSE ListTokens(kindSeq, n - 1) \o <<Comma>>
            \o ElementTokens(n, kindSeq[n])

ElementKinds == {0, 2, 3}
ListShapes == {q \in SeqsUpTo(ElementKinds, MaxElems) : Len(q) >= 2}
TupleList(kindSeq) == Append(ListTokens(kindSeq, Len(kindSeq)), ExprEnd)
BracketedTupleList(kindSeq) ==
    <<RoundOpen>> \o ListTokens(kindSeq, Len(kindSeq))
                  \o <<RoundClose, ExprEnd>>
TupleInputs ==
    {TupleList(q) : q \in ListShapes} \cup
    {BracketedTupleList(q) : q \in ListShapes}

\* runtime.rs 379-387: the sources of test_runtime_basic
Example101 ==
    <<Number(1), Plus, Number(2), Star, Number(3), Caret, Number(2), Star,
      Number(5), Plus, Number(10), ExprEnd>>
ExampleTwoPlusNeg == <<Number(2), Plus, Minus, Number(3), ExprEnd>>
ExampleNegPow == <<Minus, Number(3), Caret, Number(4), ExprEnd>>
ExampleDivDiv == <<Number(10), Slash, Number(5), Slash, Number(2), ExprEnd>>
ExampleAssignChain ==
    <<Identifier("d"), Equals, Identifier("c"), Equals, Number(7), ExprEnd>>
ExampleCallCall ==
    <<Identifier("f"), RoundOpen, Identifier("a"), RoundClose,
      RoundOpen, Identifier("b"), RoundClose, ExprEnd>>
ExampleInputs ==
    {Example101, ExampleTwoPlusNeg, ExampleNegPow, ExampleDivDiv,
     ExampleAssignChain, ExampleCallCall}

ParserInputs == ChainInputs \cup TupleInputs \cup ExampleInputs

ParserInit ==
    /\ tokens \in ParserInputs
    /\ parseResult = NotRun
    /\ evalResult = NotRun
    /\ stack = new /\ fed = <<>> /\ results = <<>>
    /\ code = <<>> /\ tokResult = NotRun
    /\ code2 = <<>> /\ tokResult2 = NotRun /\ wsEdit = None
    /\ overflow_checks \in BOOLEAN
    /\ pc = "exit" /\ command = None /\ verbose = 0
    /\ output = <<>> /\ file = None

\* main.rs 64-71
Parse ==
    /\ parseResult = NotRun
    /\ parseResult' = parse(tokens)
    /\ UNCHANGED <<tokens, evalResult, bracketVars, tokenizerVars,
                 overflow_checks, mainVars>>

\* main.rs 76-83
Eval ==
    /\ parseResult.kind = "Ok"
    /\ evalResult = NotRun
    /\ evalResult' = eval(parseResult.expr, <<>>, EvalFuel)
    /\ UNCHANGED <<tokens, parseResult, bracketVars, tokenizerVars,
                 overflow_checks, mainVars>>

ParserNext == Parse \/ Eval

SpecParser == ParserInit /\ [][ParserNext]_vars

(***************************************************************************)
(* The evaluator's specification: the same two steps, parse and then eval  *)
(* in an empty environment, applied to programs: scopes with returns,      *)
(* function definitions and calls, assignments and arithmetic.             *)
(***************************************************************************)
MaxStmts == 3

Word(str) == Token(T("Identifier"), str)
Real(lexeme) == Token(T("Number"), lexeme)
CurlyOpen == Token(BracketToken("Curly", "Opening"), <<"{">>)
CurlyClose == Token(BracketToken("Curly", "Closing"), <<"}">>)
KwIf == Token(T("If"), <<"i", "f">>)
KwElse == Token(T("Else"), <<"e", "l", "s", "e">>)
KwWhile == Token(T("While"), <<"w", "h", "i", "l", "e">>)
KwFunc == Token(T("Func"), <<"f", "u", "n", "c">>)
KwReturn == Token(T("Return"), <<"r", "e", "t", "u", "r", "n">>)

\* the name assigned by the k-th statement of a generated scope
StmtVar(k) == <<"a", "b", "c", "d", "e">>[k]

\* the k-th statement of a generated scope: an assignment `a = k`, a
\* `return k`, a `return return k`, or a reference to the unbound name u
StmtKinds == {"assign", "return", "return2", "fail"}
StmtTokens(k, kind) ==
    CASE kind = "assign" -> <<Identifier(StmtVar(k)), Equals, Number(k)>>
      [] kind = "return" -> <<KwReturn, Number(k)>>
      [] kind = "return2" -> <<KwReturn, KwReturn, Number(k)>>
      [] kind = "fail" -> <<Identifier("u")>>

RECURSIVE Statements(_, _)
Statements(kindSeq, n) ==
    IF n = 0 THEN <<>>
    ELSE IF n = 1 THEN StmtTokens(1, kindSeq[1])
    ELSE Statements(kindSeq, n - 1) \o <<ExprEnd>> \o StmtTokens(n, kindSeq[n])

StmtShapes == SeqsUpTo(StmtKinds, MaxStmts)

\* `s1; s2; s3;` as the whole program (the returnable top-level scope)
TopScope(kindSeq) ==
    IF kindSeq = <<>> THEN <<>>
    ELSE Statements(kindSeq, Len(kindSeq)) \o <<ExprEnd>>
\* `r = {s1; s2; s3}; z = 9;` (a curly scope, whose value is kept in r)
CurlyScope(kindSeq) ==
    <<Identifier("r"), Equals, CurlyOpen>>
        \o Statements(kindSeq, Len(kindSeq))
        \o <<CurlyClose, ExprEnd, Identifier("z"), Equals, Number(9), ExprEnd>>

\* runtime.rs 421-425
ExampleReturnFirst ==
    <<KwReturn, Number(1), ExprEnd, Number(2), ExprEnd, Number(3), ExprEnd>>
ExampleIfReturn ==
    <<KwIf, RoundOpen, Number(1), DoubleEquals, Number(2), RoundClose,
      CurlyOpen, KwReturn, Number(1), CurlyClose, ExprEnd, KwReturn,
      Number(2), ExprEnd>>
ExampleReturnReturn == <<KwReturn, KwReturn, Number(1), ExprEnd>>

ScopeInputs ==
    {TopScope(kindSeq) : kindSeq \in StmtShapes}
        \cup {CurlyScope(kindSeq) : kindSeq \in StmtShapes}
        \cup {ExampleReturnFirst, ExampleIfReturn, ExampleReturnReturn}

\* `func f(x) BODY; r = f(arg); z = 9;` for one body of each shape: curly
\* scopes with the return at their top, under an if, under a while and in an
\* inner scope, and the bodies that are no scope: a bare return, an if
\* and a while
BodyShapes ==
    {"scope", "scope_if", "scope_while", "scope_scope", "return", "if",
     "while"}
FuncBody(shape) ==
    CASE shape = "scope" ->
           <<CurlyOpen, KwReturn, Identifier("x"), CurlyClose>>
      [] shape = "scope_if" ->
           <<CurlyOpen, KwIf, RoundOpen, Identifier("x"), DoubleEquals,
             Number(1), RoundClose, CurlyOpen, KwReturn, Identifier("x"),
             CurlyClose, ExprEnd, Number(0), CurlyClose>>
      [] shape = "scope_while" ->
           <<CurlyOpen, KwWhile, RoundOpen, Identifier("x"), DoubleEquals,
             Number(1), RoundClose, CurlyOpen, KwReturn, Identifier("x"),
             CurlyClose, ExprEnd, Number(0), CurlyClose>>
      [] shape = "scope_scope" ->
           <<CurlyOpen, CurlyOpen, KwReturn, Identifier("x"), CurlyClose,
             ExprEnd, Number(0), CurlyClose>>
      [] shape = "return" -> <<KwReturn, Identifier("x")>>
      [] shape = "if" ->
           <<KwIf, RoundOpen, Identifier("x"), DoubleEquals, Number(1),
             RoundClose, CurlyOpen, KwReturn, Identifier("x"), CurlyClose,
             KwElse, CurlyOpen, KwReturn, Number(0), CurlyClose>>
      [] shape = "while" ->
           <<KwWhile, RoundOpen, Identifier("x"), DoubleEquals, Number(1),
             RoundClose, CurlyOpen, KwReturn, Identifier("x"), CurlyClose>>
FuncArgs == {1, 2}
CallOfBody(shape, arg) ==
    <<KwFunc, Identifier("f"), RoundOpen, Identifier("x"), RoundClose>>
        \o FuncBody(shape)
        \o <<ExprEnd, Identifier("r"), Equals, Identifier("f"), RoundOpen,
             Number(arg), RoundClose, ExprEnd, Identifier("z"), Equals,
             Number(9), ExprEnd>>
ReturnInBodyInputs ==
    {CallOfBody(shape, arg) : shape \in BodyShapes, arg \in FuncArgs}

\* `a = 1; NAME;` and `NAME = 7; NAME;` for the names of the builtin registry
\* and for names that are in no registry
LookupNames ==
    {<<"l", "o", "g">>, <<"e", "x", "p">>, <<"p", "r", "i", "n", "t">>,
     <<"l", "e", "n", "g", "t", "h">>, <<"r", "a", "n", "d", "o", "m">>,
     <<"m", "o", "d">>, <<"L", "o", "g">>, <<"l", "o">>, <<"u">>}
LookupUnbound(name) ==
    <<Identifier("a"), Equals, Number(1), ExprEnd, Word(name), ExprEnd>>
LookupBound(name) ==
    <<Word(name), Equals, Number(7), ExprEnd, Word(name), ExprEnd>>
\* runtime.rs 390
ExampleBuiltinAsValue ==
    <<Identifier("a"), Equals, Word(<<"e", "x", "p">>), ExprEnd,
      Identifier("a"), RoundOpen, Number(0), RoundClose, ExprEnd>>
LookupInputs ==
    {LookupUnbound(name) : name \in LookupNames}
        \cup {LookupBound(name) : name \in LookupNames}
        \cup {ExampleBuiltinAsValue}

\* `a = 1; func f(x) {NAME = 2; LAST}; f(ARG);`: the body assigns to the
\* caller's a, to a new name n, to its parameter x or to f itself and then
\* gives x, returns x or fails on the unbound u; the argument is a literal,
\* an assignment to a or to n, or the unbound u
AssignedInBody == {"a", "n", "x", "f"}
BodyEnds == {"value", "return", "fail"}
ArgShapes == {"literal", "assign_a", "assign_n", "fail"}
BodyEndTokens(ending) ==
    CASE ending = "value" -> <<Identifier("x")>>
      [] ending = "return" -> <<KwReturn, Identifier("x")>>
      [] ending = "fail" -> <<Identifier("u")>>
ArgTokens(arg) ==
    CASE arg = "literal" -> <<Number(3)>>
      [] arg = "assign_a" -> <<Identifier("a"), Equals, Number(3)>>
      [] arg = "assign_n" -> <<Identifier("n"), Equals, Number(3)>>
      [] arg = "fail" -> <<Identifier("u")>>
\* runtime.rs 464-467
CallWithEffects(name, ending, arg) ==
    <<Identifier("a"), Equals, Number(1), ExprEnd,
      KwFunc, Identifier("f"), RoundOpen, Identifier("x"), RoundClose,
      CurlyOpen, Identifier(name), Equals, Number(2), ExprEnd>>
        \o BodyEndTokens(ending)
        \o <<CurlyClose, ExprEnd, Identifier("f"), RoundOpen>>
        \o ArgTokens(arg)
        \o <<RoundClose, ExprEnd>>
IsolationInputs ==
    {CallWithEffects(name, ending, arg) :
        name \in AssignedInBody, ending \in BodyEnds, arg \in ArgShapes}

\* `[a = 1;] z = 0; SCOPE;` where SCOPE is the curly scope
\* `{a = 2; n = 3; z = 1}` on its own, inside another curly scope, as the
\* body of `if (z == 0)` or as the body of `while (z == 0)`
ScopeShapes == {"plain", "nested", "if", "while"}
AssigningScope ==
    <<CurlyOpen, Identifier("a"), Equals, Number(2), ExprEnd,
      Identifier("n"), Equals, Number(3), ExprEnd,
      Identifier("z"), Equals, Number(1), CurlyClose>>
ZIsZero == <<RoundOpen, Identifier("z"), DoubleEquals, Number(0), RoundClose>>
ScopeInShape(shape) ==
    CASE shape = "plain" -> AssigningScope
      [] shape = "nested" -> <<CurlyOpen>> \o AssigningScope \o <<CurlyClose>>
      [] shape = "if" -> <<KwIf>> \o ZIsZero \o AssigningScope
      [] shape = "while" -> <<KwWhile>> \o ZIsZero \o AssigningScope
AssignmentsInScope(shape, a_bound) ==
    (IF a_bound THEN <<Identifier("a"), Equals, Number(1), ExprEnd>> ELSE <<>>)
        \o <<Identifier("z"), Equals, Number(0), ExprEnd>>
        \o ScopeInShape(shape) \o <<ExprEnd>>
ScopeVarsInputs ==
    {AssignmentsInScope(shape, a_bound) :
        shape \in ScopeShapes, a_bound \in BOOLEAN}

\* `a = 1; func f(x) {NAME + x}; [NAME = 5;] r = f(2);`: the body reads a,
\* bound before the definition, or n, not bound before it; the caller assigns
\* to that name between the definition and the call, or does not
ReadByBody == {"a", "n"}
CallAfterAssignment(name, assigned) ==
    <<Identifier("a"), Equals, Number(1), ExprEnd,
      KwFunc, Identifier("f"), RoundOpen, Identifier("x"), RoundClose,
      CurlyOpen, Identifier(name), Plus, Identifier("x"), CurlyClose, ExprEnd>>
        \o (IF assigned
            THEN <<Identifier(name), Equals, Number(5), ExprEnd>> ELSE <<>>)
        \o <<Identifier("r"), Equals, Identifier("f"), RoundOpen, Number(2),
             RoundClose, ExprEnd>>
\* runtime.rs 437-444: a function whose body calls the function itself,
\* under the name that is bound only after the function value is made
ExampleRecursion ==
    <<KwFunc, Identifier("f"), RoundOpen, Identifier("x"), RoundClose,
      CurlyOpen, KwIf, RoundOpen, Identifier("x"), DoubleEquals, Number(0),
      RoundClose, CurlyOpen, KwReturn, Number(0), CurlyClose, ExprEnd,
      Identifier("f"), RoundOpen, Identifier("x"), Minus, Number(1),
      RoundClose, CurlyClose, ExprEnd,
      Identifier("r"), Equals, Identifier("f"), RoundOpen, Number(1),
      RoundClose, ExprEnd>>
LaterAssignmentInputs ==
    {CallAfterAssignment(name, assigned) :
        name \in ReadByBody, assigned \in BOOLEAN}
        \cup {ExampleRecursion}

\* PATTERN = EXPRESSION; where both sides have one shape and the same
\* operators, the pattern with the names a, b, c at its leaves and the
\* expression with the numbers 2, 3, 4
PatternShapes == {"pair", "right", "left", "neg", "neg_pair", "pair_neg"}
PatternOps == {"Plus", "Minus", "Star", "Slash", "Caret", "Comma"}
LeafTokens(k, is_pattern) ==
    IF is_pattern THEN <<Identifier(StmtVar(k))>> ELSE <<Number(k + 1)>>
SideTokens(shape, op1, op2, is_pattern) ==
    CASE shape = "pair" ->
           LeafTokens(1, is_pattern) \o <<OpToken(op1)>>
               \o LeafTokens(2, is_pattern)
      [] shape = "right" ->
           LeafTokens(1, is_pattern) \o <<OpToken(op1), RoundOpen>>
               \o LeafTokens(2, is_pattern) \o <<OpToken(op2)>>
               \o LeafTokens(3, is_pattern) \o <<RoundClose>>
      [] shape = "left" ->
           <<RoundOpen>> \o LeafTokens(1, is_pattern) \o <<OpToken(op2)>>
               \o LeafTokens(2, is_pattern) \o <<RoundClose, OpToken(op1)>>
               \o LeafTokens(3, is_pattern)
      [] shape = "neg" -> <<Minus>> \o LeafTokens(1, is_pattern)
      [] shape = "neg_pair" ->
           <<Minus, RoundOpen>> \o LeafTokens(1, is_pattern)
               \o <<OpToken(op1)>> \o LeafTokens(2, is_pattern)
               \o <<RoundClose>>
      [] shape = "pair_neg" ->
           LeafTokens(1, is_pattern) \o <<OpToken(op1), Minus>>
               \o LeafTokens(2, is_pattern)
Destructuring(shape, op1, op2) ==
    SideTokens(shape, op1, op2, TRUE) \o <<Equals>>
        \o SideTokens(shape, op1, op2, FALSE) \o <<ExprEnd>>
\* runtime.rs 459-465
ExampleNestedTuple ==
    <<Identifier("a"), Comma, RoundOpen, Identifier("b"), Comma,
      Identifier("c"), RoundClose, Equals, Number(1), Comma, RoundOpen,
      Number(2), Comma, Number(3), RoundClose, ExprEnd>>
ExampleNegPattern == <<Minus, Identifier("b"), Equals, Minus, Number(1), ExprEnd>>
ExampleSum ==
    <<Word(<<"s", "u", "m">>), Equals, Identifier("a"), Plus,
      Identifier("b"), Equals, Number(3), Plus, Number(7), ExprEnd>>
\* `a = 1; b = 2; a, b = b, a;` and `a, a = 1, 2;`
ExampleSwap ==
    <<Identifier("a"), Equals, Number(1), ExprEnd,
      Identifier("b"), Equals, Number(2), ExprEnd,
      Identifier("a"), Comma, Identifier("b"), Equals, Identifier("b"),
      Comma, Identifier("a"), ExprEnd>>
ExampleSameName ==
    <<Identifier("a"), Comma, Identifier("a"), Equals, Number(1), Comma,
      Number(2), ExprEnd>>
DestructuringInputs ==
    {Destructuring(shape, op1, op2) :
        shape \in PatternShapes, op1 \in PatternOps, op2 \in PatternOps}
        \cup {ExampleNestedTuple, ExampleNegPattern, ExampleSum, ExampleSwap,
              ExampleSameName}

\* `t = 1, 2; func f(x) {x, x}; LEFT = RIGHT;` for left sides that are a
\* pattern (a tuple, a sum, a negation) or no pattern at all (a literal, a
\* scope, an if, a while), and right sides of every syntactic kind
LeftSides == {"tuple", "sum", "neg", "literal", "scope", "if", "while"}
RightSides ==
    {"literal", "variable", "call", "tuple", "long_tuple", "sum",
     "unbound_sum", "neg", "return", "assign", "scope"}
LeftSideTokens(left) ==
    CASE left = "tuple" -> <<Identifier("a"), Comma, Identifier("b")>>
      [] left = "sum" -> <<Identifier("a"), Plus, Identifier("b")>>
      [] left = "neg" -> <<Minus, Identifier("a")>>
      [] left = "literal" -> <<Number(1)>>
      [] left = "scope" -> <<CurlyOpen, Identifier("a"), CurlyClose>>
      [] left = "if" ->
           <<RoundOpen, KwIf, RoundOpen, Number(1), DoubleEquals, Number(1),
             RoundClose, CurlyOpen, Identifier("a"), CurlyClose, RoundClose>>
      [] left = "while" ->
           <<RoundOpen, KwWhile, RoundOpen, Number(1), DoubleEquals,
             Number(2), RoundClose, CurlyOpen, Identifier("a"), CurlyClose,
             RoundClose>>
RightSideTokens(right) ==
    CASE right = "literal" -> <<Number(1)>>
      [] right = "variable" -> <<Identifier("t")>>
      [] right = "call" ->
           <<Identifier("f"), RoundOpen, Number(1), RoundClose>>
      [] right = "tuple" -> <<Number(1), Comma, Number(2)>>
      [] right = "long_tuple" ->
           <<Number(1), Comma, Number(2), Comma, Number(3)>>
      [] right = "sum" -> <<Number(1), Plus, Number(2)>>
      [] right = "unbound_sum" -> <<Identifier("u"), Plus, Number(1)>>
      [] right = "neg" -> <<Minus, Number(1)>>
      [] right = "return" -> <<RoundOpen, KwReturn, Number(1), RoundClose>>
      [] right = "assign" ->
           <<RoundOpen, Identifier("z"), Equals, Number(5), RoundClose>>
      [] right = "scope" ->
           <<CurlyOpen, Number(1), Comma, Number(2), CurlyClose>>
AssignmentOf(left, right) ==
    <<Identifier("t"), Equals, Number(1), Comma, Number(2), ExprEnd,
      KwFunc, Identifier("f"), RoundOpen, Identifier("x"), RoundClose,
      CurlyOpen, Identifier("x"), Comma, Identifier("x"), CurlyClose, ExprEnd>>
        \o LeftSideTokens(left) \o <<Equals>> \o RightSideTokens(right)
        \o <<ExprEnd>>
ShapeInputs ==
    {AssignmentOf(left, right) : left \in LeftSides, right \in RightSides}

\* `X op Y` for the four arithmetic operators over Int and Float literals,
\* a negative Int being written `(-n)`; and the examples of the tests
IntOperands == {<<"Int", n>> : n \in {0 - 3, 0, 1, 2, 5, 10, i32_MAX}}
FloatOperands ==
    {<<"Float", lexeme>> : lexeme \in {<<"2", ".", "5">>, <<"0", ".", "5">>}}
ArithmeticOps == {"Add", "Sub", "Mul", "Div"}
ArithmeticOperand(x) ==
    IF x[1] = "Float" THEN <<Real(x[2])>>
    ELSE IF x[2] < 0 THEN <<RoundOpen, Minus, Number(0 - x[2]), RoundClose>>
    ELSE <<Number(x[2])>>
ArithmeticOpToken(op) ==
    CASE op = "Add" -> Plus
      [] op = "Sub" -> Minus
      [] op = "Mul" -> Star
      [] op = "Div" -> Slash
Arithmetic(x, op, y) ==
    ArithmeticOperand(x) \o <<ArithmeticOpToken(op)>> \o ArithmeticOperand(y)
\* runtime.rs 381: 10 / 5 / 2
ExampleDivTwice == <<Number(10), Slash, Number(5), Slash, Number(2)>>
\* runtime.rs 382: 10 * 5 / 2
ExampleMulDiv == <<Number(10), Star, Number(5), Slash, Number(2)>>
\* an addition of two Int literals: 5 + 5
ExampleAdd == <<Number(5), Plus, Number(5)>>
ArithmeticInputs ==
    {Arithmetic(x, op, y) :
        x \in IntOperands \cup FloatOperands, op \in ArithmeticOps,
        y \in IntOperands \cup FloatOperands}
        \cup {ExampleDivTwice, ExampleMulDiv, ExampleAdd}

\* `B ^ E` for Int literals B and E, a negative one being written `(-n)`
PowBases == {0 - 3, 0 - 2, 0 - 1, 0, 1, 2, 3, 10}
PowExponents == {0 - 2, 0 - 1, 0, 1, 2, 3, 5}
PowOf(base, e) ==
    ArithmeticOperand(<<"Int", base>>) \o <<Caret>>
        \o ArithmeticOperand(<<"Int", e>>)
PowInputs == {PowOf(base, e) : base \in PowBases, e \in PowExponents}

\* `mod(A, B)` for Int literals, a negative one being written `(-n)`, and
\* `mod` of arguments that are no pair of Ints
ModDividends == {0 - 7, 0 - 1, 0, 1, 7}
ModDivisors == {0 - 3, 0 - 1, 0, 1, 3}
ModName == Word(<<"m", "o", "d">>)
ModOf(a, b) ==
    <<ModName, RoundOpen>> \o ArithmeticOperand(<<"Int", a>>) \o <<Comma>>
        \o ArithmeticOperand(<<"Int", b>>) \o <<RoundClose>>
ModOfOthers ==
    {<<ModName, RoundOpen, RoundClose>>,
     <<ModName, RoundOpen, Number(1), RoundClose>>,
     <<ModName, RoundOpen, Number(1), Comma, Number(2), Comma, Number(3),
       RoundClose>>,
     <<ModName, RoundOpen, Real(<<"1", ".", "5">>), Comma, Number(2),
       RoundClose>>,
     <<ModName, RoundOpen, RoundOpen, Number(1), Comma, Number(2),
       RoundClose, Comma, Number(3), RoundClose>>}
ModInputs ==
    {ModOf(a, b) : a \in ModDividends, b \in ModDivisors} \cup ModOfOthers

\* `L op R` for every binary operator other than Assign and FunctionCall,
\* where each operand either assigns a (`(a = 1)` on the left, `(a = 2)` on
\* the right) or fails (the unbound `u` on the left, `w` on the right); the
\* operator AppendToTuple arises as the second comma of `L, 5, R`
OrderOps ==
    {"Add", "Sub", "Mul", "Div", "Pow", "IsEq", "IsLt", "IsGt", "FormTuple",
     "AppendToTuple"}
OperandKinds == {"assigns", "fails"}
OrderOpTokens(op) ==
    CASE op = "Add" -> <<Plus>>
      [] op = "Sub" -> <<Minus>>
      [] op = "Mul" -> <<Star>>
      [] op = "Div" -> <<Slash>>
      [] op = "Pow" -> <<Caret>>
      [] op = "IsEq" -> <<DoubleEquals>>
      [] op = "IsLt" -> <<LeftAngle>>
      [] op = "IsGt" -> <<RightAngle>>
      [] op = "FormTuple" -> <<Comma>>
      [] op = "AppendToTuple" -> <<Comma, Number(5), Comma>>
OrderOperand(kind, name, n) ==
    IF kind = "fails" THEN <<Identifier(name)>>
    ELSE <<RoundOpen, Identifier("a"), Equals, Number(n), RoundClose>>
OperandOrder(op, left, right) ==
    OrderOperand(left, "u", 1) \o OrderOpTokens(op)
        \o OrderOperand(right, "w", 2) \o <<ExprEnd>>
OperandOrderInputs ==
    {OperandOrder(op, left, right) :
        op \in OrderOps, left \in OperandKinds, right \in OperandKinds}

\* n statements of which the first is `a = 1` and each later one binds the
\* next name to the name before it plus 1 (`b = a + 1`), followed by a read
\* of the last name: all at the top level, all in one curly scope, each in a
\* curly scope of its own, or each in a curly scope inside the one before
BindingPlaces == {"top", "curly", "each", "deep"}
BindingStmt(k) ==
    IF k = 1 THEN <<Identifier("a"), Equals, Number(1)>>
    ELSE <<Identifier(StmtVar(k)), Equals, Identifier(StmtVar(k - 1)), Plus,
           Number(1)>>
RECURSIVE BindingStmts(_, _, _)
BindingStmts(place, k, n) ==
    IF k > n THEN <<>>
    ELSE CASE place = "each" ->
                <<CurlyOpen>> \o BindingStmt(k) \o <<CurlyClose, ExprEnd>>
                    \o BindingStmts(place, k + 1, n)
           [] place = "deep" ->
                <<CurlyOpen>> \o BindingStmt(k) \o <<ExprEnd>>
                    \o BindingStmts(place, k + 1, n) \o <<CurlyClose>>
           [] OTHER ->
                BindingStmt(k) \o <<ExprEnd>> \o BindingStmts(place, k + 1, n)
BindingChain(place, n) ==
    (CASE place = "curly" ->
            <<CurlyOpen>> \o BindingStmts(place, 1, n) \o <<CurlyClose, ExprEnd>>
       [] place = "deep" -> BindingStmts(place, 1, n) \o <<ExprEnd>>
       [] OTHER -> BindingStmts(place, 1, n))
        \o <<Identifier(StmtVar(n)), ExprEnd>>
\* runtime.rs 384: a = 5; b = 6; a + b
ExampleSumOfBound ==
    <<Identifier("a"), Equals, Number(5), ExprEnd, Identifier("b"), Equals,
      Number(6), ExprEnd, Identifier("a"), Plus, Identifier("b")>>
\* runtime.rs 385: a = 5; b = 6; d = c = a + b; d
ExampleChainOfBound ==
    <<Identifier("a"), Equals, Number(5), ExprEnd, Identifier("b"), Equals,
      Number(6), ExprEnd, Identifier("d"), Equals, Identifier("c"), Equals,
      Identifier("a"), Plus, Identifier("b"), ExprEnd, Identifier("d")>>
SharedVarsInputs ==
    {BindingChain(place, n) : place \in BindingPlaces, n \in 1..MaxStmts}
        \cup {ExampleSumOfBound, ExampleChainOfBound}

\* `t = 9; LEFT = RIGHT;` where the assignment fails: by a shape mismatch in
\* a sub-pattern, by an unbound name in a right sub-expression, or in the
\* reconstructed operator (the sum of a Bool and an Int, the negation of
\* Nothing); the failing part is the first or the second of the pattern
FailureKinds == {"mismatch", "right_error", "operator", "unary_operator"}
FailurePlaces == {"first", "second"}
IsTrue == <<RoundOpen, Number(1), DoubleEquals, Number(1), RoundClose>>
NoValue == <<RoundOpen, RoundClose>>
PairPattern == <<RoundOpen, Identifier("b"), Comma, Identifier("c"), RoundClose>>
FailingPattern(kind, place) ==
    CASE kind = "mismatch" /\ place = "first" ->
             PairPattern \o <<Comma, Identifier("a")>>
      [] kind = "mismatch" /\ place = "second" ->
             <<Identifier("a"), Comma>> \o PairPattern
      [] kind = "right_error" -> <<Identifier("a"), Comma, Identifier("b")>>
      [] kind = "operator" -> <<Identifier("a"), Plus, Identifier("b")>>
      [] kind = "unary_operator" /\ place = "first" ->
             <<Minus, Identifier("a")>>
      [] kind = "unary_operator" /\ place = "second" ->
             <<Identifier("a"), Comma, Minus, Identifier("b")>>
FailingRightSide(kind, place) ==
    CASE kind = "mismatch" -> <<Number(1), Comma, Number(2)>>
      [] kind = "right_error" /\ place = "first" ->
             <<Identifier("u"), Comma, Number(1)>>
      [] kind = "right_error" /\ place = "second" ->
             <<Number(1), Comma, Identifier("u")>>
      [] kind = "operator" /\ place = "first" -> IsTrue \o <<Plus, Number(1)>>
      [] kind = "operator" /\ place = "second" -> <<Number(1), Plus>> \o IsTrue
      [] kind = "unary_operator" /\ place = "first" -> <<Minus>> \o NoValue
      [] kind = "unary_operator" /\ place = "second" ->
             <<Number(1), Comma, Minus>> \o NoValue
FailingAssignment(kind, place) ==
    <<Identifier("t"), Equals, Number(9), ExprEnd>>
        \o FailingPattern(kind, place) \o <<Equals>>
        \o FailingRightSide(kind, place) \o <<ExprEnd>>
FailingAssignmentInputs ==
    {FailingAssignment(kind, place) :
         kind \in FailureKinds, place \in FailurePlaces}

\* `STATEMENT; y = 2` where the statement holds `return 1`: alone, as the
\* right side of an assignment (in round brackets or in a curly scope), as
\* an element of a tuple, as an operand of a sum, as the argument of a call,
\* and in the body of a called function (a curly scope or a bare return)
ReturnPlaces ==
    {"statement", "assigned", "assigned_scope", "tuple_first",
     "tuple_second", "operand", "argument", "body", "bare_body"}
ReturnOne == <<RoundOpen, KwReturn, Number(1), RoundClose>>
FuncOf(body) ==
    <<KwFunc, Identifier("f"), RoundOpen, Identifier("a"), RoundClose>>
        \o body \o <<ExprEnd>>
ReturnAt(place) ==
    CASE place = "statement" -> <<KwReturn, Number(1)>>
      [] place = "assigned" -> <<Identifier("x"), Equals>> \o ReturnOne
      [] place = "assigned_scope" ->
             <<Identifier("x"), Equals, CurlyOpen, KwReturn, Number(1),
               CurlyClose>>
      [] place = "tuple_first" ->
             <<Identifier("x"), Equals>> \o ReturnOne \o <<Comma, Number(2)>>
      [] place = "tuple_second" ->
             <<Identifier("x"), Equals, Number(2), Comma>> \o ReturnOne
      [] place = "operand" ->
             <<Identifier("x"), Equals>> \o ReturnOne \o <<Plus, Number(2)>>
      [] place = "argument" ->
             FuncOf(<<CurlyOpen, Identifier("a"), CurlyClose>>)
                 \o <<Identifier("x"), Equals, Identifier("f"), RoundOpen>>
                 \o ReturnOne \o <<RoundClose>>
      [] place = "body" ->
             FuncOf(<<CurlyOpen, KwReturn, Identifier("a"), CurlyClose>>)
                 \o <<Identifier("x"), Equals, Identifier("f"), RoundOpen,
                      Number(1), RoundClose>>
      [] place = "bare_body" ->
             FuncOf(<<KwReturn, Identifier("a")>>)
                 \o <<Identifier("x"), Equals, Identifier("f"), RoundOpen,
                      Number(1), RoundClose>>
ReturnProgram(place) ==
    ReturnAt(place) \o <<ExprEnd, Identifier("y"), Equals, Number(2), ExprEnd>>
ReturnPlaceInputs == {ReturnProgram(place) : place \in ReturnPlaces}

RuntimeInputs == ScopeInputs
        \cup ReturnInBodyInputs
        \cup LookupInputs
        \cup IsolationInputs
        \cup ScopeVarsInputs
        \cup LaterAssignmentInputs
        \cup DestructuringInputs
        \cup ShapeInputs
        \cup ArithmeticInputs
        \cup PowInputs
        \cup ModInputs
        \cup OperandOrderInputs
        \cup SharedVarsInputs
        \cup FailingAssignmentInputs
        \cup ReturnPlaceInputs

RuntimeInit ==
    /\ tokens \in RuntimeInputs
    /\ parseResult = NotRun
    /\ evalResult = NotRun
    /\ stack = new /\ fed = <<>> /\ results = <<>>
    /\ code = <<>> /\ tokResult = NotRun
    /\ code2 = <<>> /\ tokResult2 = NotRun /\ wsEdit = None
    /\ overflow_checks \in BOOLEAN
    /\ pc = "exit" /\ command = None /\ verbose = 0
    /\ output = <<>> /\ file = None

SpecRuntime == RuntimeInit /\ [][ParserNext]_vars

(***************************************************************************)
(* The while loop's specification: parse and then eval applied to loops.   *)
(* `c = 0; b = 0; while ((c = c + 1) < n + 1) BODY; [z = 9]`: c counts the  *)
(* evaluations of the condition, which is true n times, and b those of the *)
(* body.  The body is `{b = b + 1}` (return_at = 0), or it returns 7 in    *)
(* its evaluation number return_at and the loop is followed by `z = 9`.    *)
(* And two loops whose condition is no Bool: from the start (`while (5)`), *)
(* and after the first evaluation of the body.                             *)
(***************************************************************************)
WhileCondition(n) ==
    <<KwWhile, RoundOpen, RoundOpen, Identifier("c"), Equals, Identifier("c"),
      Plus, Number(1), RoundClose, LeftAngle, Number(n + 1), RoundClose>>
CountingStmt == <<Identifier("b"), Equals, Identifier("b"), Plus, Number(1)>>
WhileLoop(n, return_at) ==
    <<Identifier("c"), Equals, Number(0), ExprEnd,
      Identifier("b"), Equals, Number(0), ExprEnd>>
        \o WhileCondition(n) \o <<CurlyOpen>> \o CountingStmt
        \o (IF return_at = 0 THEN <<CurlyClose, ExprEnd>>
            ELSE <<ExprEnd, KwIf, RoundOpen, Identifier("b"), DoubleEquals,
                   Number(return_at), RoundClose, CurlyOpen, KwReturn, Number(7),
                   CurlyClose, CurlyClose, ExprEnd,
                   Identifier("z"), Equals, Number(9), ExprEnd>>)
WhileNeverBool ==
    <<Identifier("b"), Equals, Number(0), ExprEnd,
      KwWhile, RoundOpen, Number(5), RoundClose, CurlyOpen>> \o CountingStmt
        \o <<CurlyClose, ExprEnd>>
WhileTurnsInt ==
    <<Identifier("t"), Equals, RoundOpen, Number(1), DoubleEquals, Number(1),
      RoundClose, ExprEnd, Identifier("b"), Equals, Number(0), ExprEnd,
      KwWhile, RoundOpen, Identifier("t"), RoundClose, CurlyOpen>>
        \o CountingStmt
        \o <<ExprEnd, Identifier("t"), Equals, Number(5), CurlyClose, ExprEnd>>
\* runtime.rs 426: while (1 == 2) {};
ExampleWhileNever ==
    <<KwWhile, RoundOpen, Number(1), DoubleEquals, Number(2), RoundClose,
      CurlyOpen, CurlyClose, ExprEnd>>
WhileInputs ==
    {WhileLoop(n, return_at) : n \in 0..EvalFuel, return_at \in 0..EvalFuel}
        \cup {WhileNeverBool, WhileTurnsInt, ExampleWhileNever}

(***************************************************************************)
(* main.rs: the pipeline read, tokenize, then either format (Fmt) or parse  *)
(* and eval, over the source texts of MainSources and GroupSources.  A     *)
(* stage that aborts                                                       *)
(* leaves main at "abort"; an eval that runs out of fuel stands for one     *)
(* that does not end and leaves main at "running".                          *)
(***************************************************************************)
MainSources ==
    {<<>>,
     <<" ">>,
     <<"1", " ", "+", " ", "2">>,
     <<"a", " ", "=", " ", "1", ";", " ", "a">>,
     <<"1", " ", "+">>,
     <<"(", "1">>,
     <<"u">>,
     <<"#">>,
     <<"a", " ", "=", "=", "=", " ", "1">>,
     <<"\"", "a", "b">>,
     <<"2", "1", "4", "7", "4", "8", "3", "6", "4", "7", " ", "+", " ", "1">>,
     <<"w", "h", "i", "l", "e", " ", "t", "r", "u", "e", " ", "{", "1", "}">>,
     <<"{", "a", " ", "=", " ", "1", "}", ";", " ", "a">>,
     <<"T", "R", "U", "E">>}

\* statements that end a bracket group or the source: `if`, `while` and
\* `func` with or without condition, declaration, body and else branch
GroupEnds ==
    {<<"i", "f", " ", "t", "r", "u", "e">>,
     <<"w", "h", "i", "l", "e", " ", "t", "r", "u", "e">>,
     <<"f", "u", "n", "c", " ", "f", "(", "x", ")">>,
     <<"i", "f">>,
     <<"w", "h", "i", "l", "e">>,
     <<"f", "u", "n", "c">>,
     <<"f", "u", "n", "c", " ", "f">>,
     <<"i", "f", " ", "t", "r", "u", "e", " ", "1">>,
     <<"i", "f", " ", "t", "r", "u", "e", " ", "{", "1", "}", " ", "e", "l", "s", "e">>,
     <<"w", "h", "i", "l", "e", " ", "t", "r", "u", "e", ";">>,
     <<"i", "f", " ", "(", "a", ")", " ", "{", "1", "}">>,
     <<"f", "u", "n", "c", " ", "f", "(", "x", ")", " ", "{", "x", "}">>,
     <<"r", "e", "t", "u", "r", "n">>,
     <<"1", " ", "+">>}
\* no group, a curly group and a round group
Groups == {<<(<<>>), (<<>>)>>, <<(<<"{">>), (<<"}">>)>>, <<(<<"(">>), (<<")">>)>>}
GroupSources == {g[1] \o inner \o g[2] : g \in Groups, inner \in GroupEnds}

MainInit ==
    /\ file \in {None}
           \cup {Some(source) : source \in MainSources \cup GroupSources}
    /\ command \in {None, Some("Fmt")}
    /\ verbose \in {0, 1}
    /\ overflow_checks \in BOOLEAN
    /\ pc = "read"
    /\ output = <<>>
    /\ code = <<>> /\ tokResult = NotRun
    /\ code2 = <<>> /\ tokResult2 = NotRun /\ wsEdit = None
    /\ tokens = <<>> /\ parseResult = NotRun /\ evalResult = NotRun
    /\ stack = new /\ fed = <<>> /\ results = <<>>

\* println! of a stage's error
Rendered(stage, e) == [printed |-> "error", stage |-> stage, e |-> e]
\* the println! under `if args.verbose > 0`
Verbose(title, shown) == [printed |-> title, shown |-> shown]
\* the output after a stage's result r: its error, or its value when verbose
println(stage, title, r, shown) ==
    IF r.kind = "Err" THEN Append(output, Rendered(stage, r))
    ELSE IF r.kind = "Ok" /\ verbose > 0
    THEN Append(output, Verbose(title, shown))
    ELSE output
\* a main that goes on to the next stage whatever the result
after_goes_on(r, next) == next
\* where main goes after a stage's result r
after(r, next) ==
    CASE r.kind = "Ok" -> next
      [] r.kind = "Err" -> "exit"
      [] r.kind = "OutOfFuel" -> "running"
      [] OTHER -> "abort"

\* main.rs 38
MainRead ==
    /\ pc = "read"
    /\ IF file = None
       THEN pc' = "abort" /\ code' = code
       ELSE pc' = "tokenize" /\ code' = file.some
    /\ UNCHANGED <<tokResult, code2, tokResult2, wsEdit, bracketVars,
                   parserVars, overflow_checks, command, verbose, output,
                   file>>

\* main.rs 46-56
MainTokenize ==
    /\ pc = "tokenize"
    /\ tokResult' = tokenize(code)
    /\ tokens' = IF tokResult'.kind = "Ok" THEN tokResult'.tokens ELSE tokens
    /\ output' = println("tokenize", "Tokens", tokResult', tokens')
    /\ pc' = after(tokResult', IF command = Some("Fmt") THEN "fmt" ELSE "parse")
    /\ UNCHANGED <<code, code2, tokResult2, wsEdit, bracketVars, parseResult,
                   evalResult, overflow_checks, command, verbose, file>>

\* main.rs 58-62
MainFmt ==
    /\ pc = "fmt"
    /\ IF untokenize(tokens, FALSE) = Panic
       THEN pc' = "abort" /\ file' = file
       ELSE pc' = "exit" /\ file' = Some(untokenize(tokens, FALSE).text)
    /\ UNCHANGED <<tokenizerVars, bracketVars, parserVars, overflow_checks,
                   command, verbose, output>>

\* main.rs 64-74
MainParse ==
    /\ pc = "parse"
    /\ parseResult' = parse(tokens)
    /\ output' = println("parse", "AST", parseResult',
                         IF parseResult'.kind = "Ok" THEN parseResult'.expr
                         ELSE None)
    /\ pc' = after(parseResult', "eval")
    /\ UNCHANGED <<tokens, evalResult, tokenizerVars, bracketVars,
                   overflow_checks, command, verbose, file>>

\* main.rs 76-87
MainEval ==
    /\ pc = "eval"
    /\ evalResult' = eval(parseResult.expr, <<>>, EvalFuel)
    /\ output' = println("eval", "Resulting value", evalResult',
                         IF evalResult'.kind = "Ok" THEN evalResult'.value
                         ELSE None)
    /\ pc' = after(evalResult', "exit")
    /\ UNCHANGED <<tokens, parseResult, tokenizerVars, bracketVars,
                   overflow_checks, command, verbose, file>>

MainNext == MainRead \/ MainTokenize \/ MainFmt \/ MainParse \/ MainEval

SpecMain == MainInit /\ [][MainNext]_vars

(***************************************************************************)
(* The while loop's specification: main from its parse stage on, applied   *)
(* to the tokens of the loops of WhileInputs.                              *)
(***************************************************************************)
WhileInit ==
    /\ tokens \in WhileInputs
    /\ parseResult = NotRun
    /\ evalResult = NotRun
    /\ stack = new /\ fed = <<>> /\ results = <<>>
    /\ code = <<>> /\ tokResult = NotRun
    /\ code2 = <<>> /\ tokResult2 = NotRun /\ wsEdit = None
    /\ overflow_checks \in BOOLEAN
    /\ pc = "parse" /\ command = None /\ verbose \in {0, 1}
    /\ output = <<>> /\ file = None

WhileNext == MainParse \/ MainEval

\* main leaves the stage it is in: the step MainParse at "parse" and the step
\* MainEval at "eval", which both can always be taken there
Leaves(stage) ==
    /\ pc = stage
    /\ pc' \in {"parse", "eval", "exit", "running", "abort"} \ {stage}

\* main.rs 64-87 is straight-line code: a stage that is reached is run
SpecWhile ==
    /\ WhileInit /\ [][WhileNext]_vars
    /\ WF_pc(Leaves("parse")) /\ WF_pc(Leaves("eval"))

(***************************************************************************)
(* The formatter's specification: `calculator fmt` applied to a source     *)
(* text, and applied again to the text it wrote.                           *)
(***************************************************************************)
MaxSourceLen == 3
FormatChars == {"1", "a", "=", " ", ";", "\"", "^", "(", "{", "}"}
FormatExamples ==
    {<<"f", "(", "1", ")", " ", "^", " ", "2", ";", " ", "{", "a", " ",
       "=", " ", "T", "R", "U", "E", "}">>,
     <<"{", " ", "{", " ", "a", " ", "}", " ", "b", " ", "}">>,
     <<"1", " ", "=", "=", " ", "1">>,
     <<"\"", "s", "\"", " ", "+", " ", "\"", "t", "\"">>,
     <<"a", "=", "=", "1">>,
     <<"i", "f", " ", "(", "a", " ", "<", " ", "1", ")", " ", "{", "\n",
       " ", " ", "b", "\n", "}", " ", "e", "l", "s", "e", " ", "{", "c",
       "}">>,
     <<"}", "}", "{">>,
     <<"F", "a", "l", "s", "e", ";", ";", "-", "1", ".", "5">>}
FormatSources == SeqsUpTo(FormatChars, MaxSourceLen) \cup FormatExamples

FormatInit ==
    /\ code \in FormatSources
    /\ tokResult = NotRun
    /\ code2 = <<>> /\ tokResult2 = NotRun /\ wsEdit = None
    /\ file = None
    /\ pc = "fmt" /\ command = Some("Fmt") /\ verbose = 0 /\ output = <<>>
    /\ tokens = <<>> /\ parseResult = NotRun /\ evalResult = NotRun
    /\ stack = new /\ fed = <<>> /\ results = <<>>
    /\ overflow_checks = TRUE

\* main.rs 58-61 on the tokens of code: the text written is code2
Format ==
    /\ tokResult.kind = "Ok"
    /\ wsEdit = None
    /\ pc = "fmt"
    /\ wsEdit' = [edit |-> "fmt"]
    /\ IF untokenize(tokResult.tokens, FALSE) = Panic
       THEN pc' = "abort" /\ code2' = code2
       ELSE pc' = "exit" /\ code2' = untokenize(tokResult.tokens, FALSE).text
    /\ UNCHANGED <<code, tokResult, tokResult2, bracketVars, parserVars,
                   overflow_checks, command, verbose, output, file>>

\* main.rs 46-61 on the text written: tokenize, and untokenize when it
\* returned Ok; the text written this time is file
Reformat ==
    /\ wsEdit = [edit |-> "fmt"]
    /\ pc = "exit"
    /\ tokResult2 = NotRun
    /\ tokResult2' = tokenize(code2)
    /\ IF tokResult2'.kind # "Ok" THEN pc' = "exit" /\ file' = file
       ELSE IF untokenize(tokResult2'.tokens, FALSE) = Panic
       THEN pc' = "abort" /\ file' = file
       ELSE /\ pc' = "exit"
            /\ file' = Some(untokenize(tokResult2'.tokens, FALSE).text)
    /\ UNCHANGED <<code, tokResult, code2, wsEdit, bracketVars, parserVars,
                   overflow_checks, command, verbose, output>>

FormatNext == Tokenize \/ Format \/ Reformat

SpecFormat == FormatInit /\ [][FormatNext]_vars

BracketNext == Update

BracketInit ==
    /\ stack = new
    /\ fed = <<>>
    /\ results = <<>>
    /\ code = <<>> /\ tokResult = NotRun
    /\ code2 = <<>> /\ tokResult2 = NotRun /\ wsEdit = None
    /\ tokens = <<>> /\ parseResult = NotRun /\ evalResult = NotRun
    /\ overflow_checks = TRUE
    /\ pc = "exit" /\ command = None /\ verbose = 0
    /\ output = <<>> /\ file = None

SpecBracket == BracketInit /\ [][BracketNext]_vars

(***************************************************************************)
(* Properties of BracketStack                                              *)
(***************************************************************************)
Closer(type_) == [type_ |-> type_, side |-> "Closing"]

\* well-nested and family-matched, by the grammar  B ::= empty | open B close B
RECURSIVE Balanced(_)
Balanced(s) ==
    \/ s = <<>>
    \/ /\ s[1].side = "Opening"
       /\ \E j \in 2..Len(s) :
             /\ s[j] = Closer(s[1].type_)
             /\ Balanced(SubSeq(s, 2, j - 1))
             /\ Balanced(SubSeq(s, j + 1, Len(s)))

\* the elements of s at the indices of idxs, in ascending index order
Pick(s, idxs) ==
    [k \in 1..Cardinality(idxs) |->
        s[CHOOSE i \in idxs : Cardinality({j \in idxs : j <= i}) = k]]

\* the brackets whose update returned Ok, in call order
Accepted == Pick(fed, {i \in 1..Len(fed) : results[i] = "Ok"})

\* the families of the openers of s that no later closer of s matches
OpenFamilies(s) ==
    LET open == {i \in 1..Len(s) :
                    /\ s[i].side = "Opening"
                    /\ ~\E j \in (i + 1)..Len(s) :
                          /\ s[j] = Closer(s[i].type_)
                          /\ Balanced(SubSeq(s, i + 1, j - 1))}
        picked == Pick(s, open)
    IN  [k \in 1..Len(picked) |-> picked[k].type_]

\* C1: every update of a balanced sequence returns Ok and the stack ends
\* empty; in a balanced prefix followed by one extra closer, the update of
\* that closer is the first and only one to fail.
C1_BalancedEndsEmpty ==
    /\ Balanced(fed) =>
          /\ \A i \in 1..Len(results) : results[i] = "Ok"
          /\ is_empty(stack)
    /\ (/\ Len(fed) >= 1
        /\ Balanced(SubSeq(fed, 1, Len(fed) - 1))
        /\ fed[Len(fed)].side = "Closing") =>
          /\ results[Len(fed)] # "Ok"
          /\ \A i \in 1..(Len(fed) - 1) : results[i] = "Ok"

C1_Witness ==
    /\ Len(fed) = 5
    /\ SubSeq(fed, 1, 4) = <<[type_ |-> "Round", side |-> "Opening"],
                             [type_ |-> "Curly", side |-> "Opening"],
                             Closer("Curly"), Closer("Round")>>
    /\ fed[5].side = "Closing"
    /\ results[5] = "unmatched closing bracket"
    /\ is_empty(stack)

C2_Step ==
    LET bracket == fed'[Len(fed')]
        res == results'[Len(results')]
    IN  /\ bracket.side = "Closing" =>
              (res = "unmatched closing bracket"
                  <=> (is_empty(stack) \/ stack[Len(stack)] # bracket.type_))
        /\ res # "Ok" => stack' = stack

\* C2: a Closing update fails exactly when the stack is empty or its top
\* differs from the closer's family; a failing update leaves the stack as it
\* was; the stack always holds, in opening order, the families of the
\* accepted openers that no accepted closer has matched.
C2_ClosingFailure ==
    /\ [](stack = OpenFamilies(Accepted))
    /\ [][C2_Step]_vars

C2_Witness ==
    /\ Len(fed) >= 3
    /\ fed[Len(fed)] = Closer("Round")
    /\ results[Len(fed)] = "unmatched closing bracket"
    /\ stack = <<"Round", "Curly">>

(***************************************************************************)
(* Properties of the tokenizer                                             *)
(***************************************************************************)
HasQuote(s) == \E i \in 1..Len(s) : s[i] = "\""

\* whether position i of s lies outside every string literal
OutsideString(s, i) ==
    Cardinality({j \in 1..(i - 1) : s[j] = "\""}) % 2 = 0

Count(S) == Cardinality(S)

LastNonWhitespace(s) ==
    LET idxs == {i \in 1..Len(s) : ~is_whitespace(s[i])} IN
    IF idxs = {} THEN None
    ELSE Some(s[CHOOSE i \in idxs : \A j \in idxs : j <= i])

ExprEnds(toks) == {i \in 1..Len(toks) : toks[i].t = T("ExprEnd")}

EndsWithOneTerminator(s, toks) ==
    /\ Len(toks) > 0
    /\ toks[Len(toks)].t = T("ExprEnd")
    /\ Count(ExprEnds(toks)) =
          Count({i \in 1..Len(s) : s[i] = ";" /\ OutsideString(s, i)})
          + (IF LastNonWhitespace(s) = Some(";") THEN 0 ELSE 1)

\* C3 as stated: every successful tokenize returns a sequence that ends with
\* ExprEnd, one being appended exactly when the source does not end in `;`.
C3_Original ==
    tokResult.kind = "Ok" => EndsWithOneTerminator(code, tokResult.tokens)

\* C3 amended: the same for every non-empty source; the empty source yields
\* the empty token sequence.
C3_EndsWithExprEnd ==
    tokResult.kind = "Ok" =>
        IF code = <<>> THEN tokResult.tokens = <<>>
        ELSE EndsWithOneTerminator(code, tokResult.tokens)

C3_Witness ==
    /\ tokResult.kind = "Ok"
    /\ code = <<"1", ";", "1", ";">>
    /\ Count(ExprEnds(tokResult.tokens)) = 2

\* the text with the whitespace char, its position there, and both outcomes
WsPair ==
    IF wsEdit.edit = "remove"
    THEN [text |-> code, p |-> wsEdit.at,
          spaced |-> tokResult, unspaced |-> tokResult2]
    ELSE [text |-> code2, p |-> wsEdit.at + 1,
          spaced |-> tokResult2, unspaced |-> tokResult]

IsWordChar(ch) == is_identifier_char(ch) \/ is_numeric_char(ch)

\* the whitespace at p separates two tokens that would not merge without it
BetweenTokens(text, p) ==
    /\ 1 < p /\ p < Len(text)
    /\ ~is_whitespace(text[p - 1]) /\ ~is_whitespace(text[p + 1])
    /\ ~(IsWordChar(text[p - 1]) /\ IsWordChar(text[p + 1]))
    /\ ~(text[p - 1] = "=" /\ text[p + 1] = "=")

RunStarts(s) ==
    {i \in 1..Len(s) : s[i] = "=" /\ (i = 1 \/ s[i - 1] # "=")}
RunLen(s, i) ==
    CHOOSE n \in 1..Len(s) :
        /\ \A k \in i..(i + n - 1) : k <= Len(s) /\ s[k] = "="
        /\ (i + n > Len(s) \/ s[i + n] # "=")
\* the token each maximal run of `=` should give, in source order
RunTokens(s) ==
    LET starts == Pick([i \in 1..Len(s) |-> i], RunStarts(s)) IN
    [k \in 1..Len(starts) |->
        IF RunLen(s, starts[k]) = 1 THEN "Equals" ELSE "DoubleEquals"]
IsEqualsKind(k) == k \in {"Equals", "DoubleEquals"}

\* C5: every maximal run of `=` gives one Equals (length 1), one
\* DoubleEquals (length 2) or a TokenizerError (length 3 or more).
C5_EqualsRuns ==
    (tokResult # NotRun /\ ~HasQuote(code)) =>
        /\ (\E i \in RunStarts(code) : RunLen(code, i) >= 3)
              => tokResult.kind = "Err"
        /\ tokResult.kind = "Ok"
              => SelectSeq(kinds(tokResult.tokens), IsEqualsKind)
                    = RunTokens(code)

FirstNonAscii(s) ==
    CHOOSE i \in 1..Len(s) :
        ~is_ascii(s[i]) /\ \A j \in 1..(i - 1) : is_ascii(s[j])

\* C6: a source whose first non-ASCII char follows a text that tokenizes
\* without error fails with 'non-ASCII character' at that char's offset.
C6_NonAsciiRejected ==
    (/\ tokResult # NotRun
     /\ \E i \in 1..Len(code) : ~is_ascii(code[i])
     /\ tokenize(SubSeq(code, 1, FirstNonAscii(code) - 1)).kind = "Ok")
    => tokResult = TokenizerError("non-ASCII character",
                                  char_idx(code, FirstNonAscii(code)))

(***************************************************************************)
(* Properties of the parser and of the evaluation of its trees             *)
(***************************************************************************)
SymOp(sym) ==
    CASE sym = "Plus" -> "Add" [] sym = "Minus" -> "Sub"
      [] sym = "Star" -> "Mul" [] sym = "Slash" -> "Div"
      [] sym = "Caret" -> "Pow" [] sym = "Equals" -> "Assign"
      [] sym = "DoubleEquals" -> "IsEq" [] sym = "LeftAngle" -> "IsLt"
      [] sym = "RightAngle" -> "IsGt" [] sym = "Comma" -> "FormTuple"
      [] sym = "Call" -> "FunctionCall"

\* the position of an operator in the table
ListedAt(op) ==
    CHOOSE k \in 1..Len(ORDER_OF_PRECEDENCE) : ORDER_OF_PRECEDENCE[k] = op

Leaf(k) == Value(IntV(k))
Neg(x) == UnaryOperation("Neg", x)
Program(expr) == [kind |-> "Ok", expr |-> Scope(<<expr>>, TRUE)]
Parsed == parseResult # NotRun
Evaluated == evalResult # NotRun

\* the tree of x op1 y op2 z when the operator listed later binds tighter
ByTable(op1, x, op2, y, z) ==
    IF ListedAt(Binary(op2)) > ListedAt(Binary(op1))
    THEN BinaryOperation(op1, x, BinaryOperation(op2, y, z))
    ELSE BinaryOperation(op2, BinaryOperation(op1, x, y), z)

TighterThanNeg(op) == ListedAt(Binary(op)) > ListedAt(Unary("Neg"))

\* each case pairs a token sequence with the tree expected of it
ParsesAs(cases) ==
    \A c \in cases : (tokens = c[1] /\ Parsed) => parseResult = Program(c[2])

DistinctPairs == {ops \in OpSyms \X OpSyms : ops[1] # ops[2]}

\* x op1 y op2 z for two distinct operators of the table
C7_PairCases ==
    {<<Chain(ops, 0),
       ByTable(SymOp(ops[1]), Leaf(1), SymOp(ops[2]), Leaf(2), Leaf(3))>> :
        ops \in DistinctPairs}

\* -x op y
C7_NegFirstCases ==
    {<<Chain(<<s>>, 1),
       IF TighterThanNeg(SymOp(s))
       THEN Neg(BinaryOperation(SymOp(s), Leaf(1), Leaf(2)))
       ELSE BinaryOperation(SymOp(s), Neg(Leaf(1)), Leaf(2))>> :
        s \in OpSyms}

\* x op1 -y op2 z, the Neg not enclosed in the brackets of a call
C7_NegMiddleCases ==
    {<<Chain(ops, 2),
       IF TighterThanNeg(SymOp(ops[2]))
       THEN BinaryOperation(SymOp(ops[1]), Leaf(1),
                Neg(BinaryOperation(SymOp(ops[2]), Leaf(2), Leaf(3))))
       ELSE ByTable(SymOp(ops[1]), Leaf(1),
                    SymOp(ops[2]), Neg(Leaf(2)), Leaf(3))>> :
        ops \in {o \in DistinctPairs : o[1] # "Call"}}

C7_Pairs == ParsesAs(C7_PairCases)
C7_NegFirst == ParsesAs(C7_NegFirstCases)
C7_NegMiddle == ParsesAs(C7_NegMiddleCases)

C7_Examples ==
    /\ (tokens = Example101 /\ Evaluated) =>
           evalResult = EvalOk(IntV(101), <<>>)
    /\ (tokens = ExampleTwoPlusNeg /\ Evaluated) =>
           evalResult = EvalOk(IntV(-1), <<>>)
    /\ (tokens = ExampleNegPow /\ Evaluated) =>
           evalResult = EvalOk(IntV(-81), <<>>)

\* C7: of two distinct operators of the table the one listed later binds
\* tighter: x op1 y op2 z parses as op1(x, op2(y, z)) when op2 is listed
\* later than op1 and as op2(op1(x, y), z) when it is listed earlier; a unary
\* Neg takes as operand what is built from Pow and FunctionCall and stops
\* before any looser operator; 1 + 2 * 3 ^ 2 * 5 + 10 evaluates to Int 101,
\* 2 + -3 to -1 and -3 ^ 4 to -81.
C7_Precedence == C7_Pairs /\ C7_NegFirst /\ C7_NegMiddle /\ C7_Examples

C7_Witness ==
    /\ tokens = Example101
    /\ parseResult =
         Program(BinaryOperation("Add",
             BinaryOperation("Add", Leaf(1),
                 BinaryOperation("Mul",
                     BinaryOperation("Mul", Leaf(2),
                         BinaryOperation("Pow", Leaf(3), Leaf(2))),
                     Leaf(5))),
             Leaf(10)))
    /\ evalResult = EvalOk(IntV(101), <<>>)

LeftNested(op, n) ==
    LET RECURSIVE L(_)
        L(k) == IF k = 1 THEN Leaf(1)
                ELSE BinaryOperation(op, L(k - 1), Leaf(k))
    IN  L(n)
RightNested(op, n) ==
    LET RECURSIVE R(_)
        R(k) == IF k = n THEN Leaf(n)
                ELSE BinaryOperation(op, Leaf(k), R(k + 1))
    IN  R(1)

\* x op y op z ... of one operator, two operators or more
C8_ChainCases ==
    {<<Chain([k \in 1..n |-> s], 0),
       IF SymOp(s) \in {"Assign", "FunctionCall"}
       THEN RightNested(SymOp(s), n + 1)
       ELSE LeftNested(SymOp(s), n + 1)>> :
        s \in OpSyms \ {"Comma"}, n \in 2..MaxOps}

C8_Chains == ParsesAs(C8_ChainCases)

C8_Examples ==
    /\ (tokens = ExampleDivTwice /\ Evaluated) =>
           evalResult = EvalOk(Float(1, 1), <<>>)
    /\ (tokens = ExampleAssignChain /\ Parsed) =>
           parseResult =
               Program(BinaryOperation("Assign", Variable(<<"d">>),
                   BinaryOperation("Assign", Variable(<<"c">>), Leaf(7))))
    /\ (tokens = ExampleAssignChain /\ Evaluated) =>
           /\ evalResult.kind = "Ok"
           /\ evalResult.vars[<<"c">>] = IntV(7)
           /\ evalResult.vars[<<"d">>] = IntV(7)
    /\ (tokens = ExampleCallCall /\ Parsed) =>
           parseResult =
               Program(BinaryOperation("FunctionCall", Variable(<<"f">>),
                   BinaryOperation("FunctionCall", Variable(<<"a">>),
                                   Variable(<<"b">>))))

\* C8: a chain x op y op z of one binary operator parses as op(op(x, y), z)
\* for every operator except Assign and FunctionCall and as op(x, op(y, z))
\* for Assign and FunctionCall; 10 / 5 / 2 is (10/5)/2, d = c = v assigns c
\* and then d, and f(a)(b) is FunctionCall(f, FunctionCall(a, b)).
C8_Associativity == C8_Chains /\ C8_Examples

C8_Witness ==
    /\ tokens = ExampleCallCall
    /\ parseResult.kind = "Ok"
    /\ parseResult.expr.body[1].right.op = "FunctionCall"

\* the tree of a comma list: FormTuple for the first comma, AppendToTuple for
\* each later one
RECURSIVE TupleExpr(_, _)
TupleExpr(elems, n) ==
    IF n = 2 THEN BinaryOperation("FormTuple", elems[1], elems[2])
    ELSE BinaryOperation("AppendToTuple", TupleExpr(elems, n - 1), elems[n])

ElementExpr(i, kind) ==
    IF kind = 0 THEN Leaf(i)
    ELSE TupleExpr([j \in 1..kind |-> Leaf(i + j)], kind)
ElementValue(i, kind) ==
    IF kind = 0 THEN IntV(i) ELSE Tuple([j \in 1..kind |-> IntV(i + j)])

\* the comma lists, bare and round-bracketed, each with its tree and value
C9_ListCases ==
    {<<toks[2],
       TupleExpr([i \in 1..Len(toks[1]) |-> ElementExpr(i, toks[1][i])],
                 Len(toks[1])),
       Tuple([i \in 1..Len(toks[1]) |-> ElementValue(i, toks[1][i])])>> :
        toks \in {<<q, TupleList(q)>> : q \in ListShapes} \cup
                 {<<q, BracketedTupleList(q)>> : q \in ListShapes}}

\* C9: a comma-separated list of n >= 2 operands at one bracket level parses
\* to FormTuple for the first comma and AppendToTuple for each later comma
\* and evaluates to one flat n-element Tuple in source order; an element is
\* a nested tuple only where it is itself a bracketed comma list.
C9_TupleFlattening ==
    /\ ParsesAs(C9_ListCases)
    /\ \A c \in C9_ListCases :
         (tokens = c[1] /\ Evaluated) => evalResult = EvalOk(c[3], <<>>)

C9_Witness ==
    /\ tokens = TupleList(<<2, 0, 0>>)
    /\ evalResult =
         EvalOk(Tuple(<<Tuple(<<IntV(2), IntV(3)>>), IntV(2), IntV(3)>>), <<>>)

\* a, b, c op d for the operators listed after FormTuple
C10_Cases ==
    {<<Chain(<<"Comma", "Comma", s>>, 0),
       BinaryOperation("AppendToTuple",
           BinaryOperation("FormTuple", Leaf(1), Leaf(2)),
           BinaryOperation(SymOp(s), Leaf(3), Leaf(4)))>> :
        s \in {x \in OpSyms :
                 ListedAt(Binary(SymOp(x))) > ListedAt(Binary("FormTuple"))}}

\* C10: AppendToTuple binds like FormTuple, looser than IsEq and every
\* arithmetic operator: in a, b, c op d the third element is the whole of
\* c op d, so 1, 2, 3 + 4 is the 3-tuple (1, 2, 7) and not an Add applied to
\* a tuple.
C10_AppendBindsLikeFormTuple ==
    /\ ParsesAs(C10_Cases)
    /\ (tokens = Chain(<<"Comma", "Comma", "Plus">>, 0) /\ Evaluated) =>
         evalResult = EvalOk(Tuple(<<IntV(1), IntV(2), IntV(7)>>), <<>>)

(***************************************************************************)
(* Properties of the evaluator                                             *)
(***************************************************************************)
\* each case pairs a program with the outcome expected of its evaluation
EvaluatesTo(cases) ==
    \A c \in cases : (tokens = c[1] /\ Evaluated) => evalResult = c[2]

\* the environment that binds the name of each pair to the pair's value
Env(pairs) ==
    [name \in {b[1] : b \in pairs} |->
        (CHOOSE b \in pairs : b[1] = name)[2]]

\* the first statement of a generated scope that is not an assignment, or
\* one past the last statement when all are assignments
FirstStop(kindSeq) ==
    Min(Len(kindSeq) + 1,
        CHOOSE k \in 1..(Len(kindSeq) + 1) :
            /\ \A j \in 1..(k - 1) : kindSeq[j] = "assign"
            /\ k <= Len(kindSeq) => kindSeq[k] # "assign")
\* the bindings made by the statements before the k-th
AssignedBefore(kindSeq, k) ==
    {<<(<<StmtVar(j)>>), IntV(j)>> : j \in 1..(k - 1)}
UnboundU(env) ==
    RuntimeError(<<"reference to non-existent variable", <<"u">>>>, env)
\* the value a generated scope yields when it stops at statement k without
\* an error: the sentinel of the return, or the last statement's value
YieldOf(kindSeq, k) ==
    IF k > Len(kindSeq)
    THEN (IF kindSeq = <<>> THEN Nothing ELSE IntV(Len(kindSeq)))
    ELSE IF kindSeq[k] = "return" THEN Returned(IntV(k))
    ELSE Returned(Returned(IntV(k)))
\* a value with one Returned wrapper removed, if it has one
Unwrapped(v) == IF v.type = "Returned" THEN v.inner ELSE v

\* the top-level scope is returnable: later statements leave no trace, and
\* the sentinel loses exactly one wrapper
C11_ReturnableCases ==
    {<<TopScope(kindSeq),
       Bind(FirstStop(kindSeq), LAMBDA k :
         IF k <= Len(kindSeq) /\ kindSeq[k] = "fail"
         THEN UnboundU(Env(AssignedBefore(kindSeq, k)))
         ELSE EvalOk(Unwrapped(YieldOf(kindSeq, k)),
                     Env(AssignedBefore(kindSeq, k))))>> :
        kindSeq \in StmtShapes}
\* a curly scope is not returnable: r receives the sentinel unchanged, which
\* then ends the top-level scope before z is assigned
C11_NonReturnableCases ==
    {<<CurlyScope(kindSeq),
       Bind(FirstStop(kindSeq), LAMBDA k :
         IF k <= Len(kindSeq) /\ kindSeq[k] = "fail"
         THEN UnboundU(Env(AssignedBefore(kindSeq, k)))
         ELSE IF k <= Len(kindSeq)
         THEN EvalOk(Unwrapped(YieldOf(kindSeq, k)),
                     Env(AssignedBefore(kindSeq, k)
                           \cup {<<(<<"r">>), YieldOf(kindSeq, k)>>}))
         ELSE EvalOk(IntV(9),
                     Env(AssignedBefore(kindSeq, k)
                           \cup {<<(<<"r">>), YieldOf(kindSeq, k)>>,
                                 <<(<<"z">>), IntV(9)>>})))>> :
        kindSeq \in StmtShapes}
C11_ExampleCases ==
    {<<ExampleReturnFirst, EvalOk(IntV(1), <<>>)>>,
     <<ExampleIfReturn, EvalOk(IntV(2), <<>>)>>,
     <<ExampleReturnReturn, EvalOk(Returned(IntV(1)), <<>>)>>}

\* C11: when a statement of a scope evaluates to Returned(v), no later
\* statement of the scope is evaluated (no binding changes and no error
\* arises from it); a returnable scope yields v with one wrapper removed and
\* a non-returnable scope yields Returned(v) unchanged; a scope without a
\* return yields its last statement's value and an empty scope Nothing.
\* `return 1; 2; 3` gives 1, `if (1 == 2) {return 1}; return 2` gives 2 and
\* `return return 1` gives Returned(Int(1)).
C11_ReturnProtocol ==
    /\ EvaluatesTo(C11_ReturnableCases)
    /\ EvaluatesTo(C11_NonReturnableCases)
    /\ EvaluatesTo(C11_ExampleCases)

\* `a = 1; return 2; u;` has given 2 with only a bound, and the curly scope
\* `{a = 1; return 2; c = 3}` has handed the sentinel to r
C11_Witness ==
    \/ /\ tokens = TopScope(<<"assign", "return", "fail">>)
       /\ evalResult = EvalOk(IntV(2), Env({<<(<<"a">>), IntV(1)>>}))
    \/ /\ tokens = CurlyScope(<<"assign", "return", "assign">>)
       /\ evalResult = EvalOk(IntV(2), Env({<<(<<"a">>), IntV(1)>>,
                                            <<(<<"r">>), Returned(IntV(2))>>}))

\* the binding of a name after the evaluation, None when there is none
BoundTo(name) ==
    IF evalResult.kind = "Ok" /\ name \in DOMAIN evalResult.vars
    THEN Some(evalResult.vars[name])
    ELSE None

\* the value that `return` hands to the caller of a body, or the body's last
\* value when no return executes
ValueOfBody(shape, arg) ==
    CASE shape \in {"scope", "return"} -> IntV(arg)
      [] shape = "scope_scope" -> IntV(arg)
      [] shape \in {"scope_if", "scope_while", "if"} ->
           IF arg = 1 THEN IntV(arg) ELSE IntV(0)
      [] shape = "while" -> IF arg = 1 THEN IntV(arg) ELSE Nothing

\* C12: `return` inside a user-defined function terminates only that call:
\* for every body shape, when `return v` executes inside the body the call
\* evaluates to v itself, not to a Returned sentinel, and the caller's
\* statements after the call are still evaluated.
C12_ReturnEndsOnlyTheCall ==
    \A shape \in BodyShapes, arg \in FuncArgs :
        (tokens = CallOfBody(shape, arg) /\ Evaluated) =>
            /\ BoundTo(<<"r">>) = Some(ValueOfBody(shape, arg))
            /\ BoundTo(<<"z">>) = Some(IntV(9))

\* the names of the builtin functions
C13_Registry ==
    {<<(<<"l", "o", "g">>), "log">>, <<(<<"e", "x", "p">>), "exp">>,
     <<(<<"p", "r", "i", "n", "t">>), "print">>,
     <<(<<"l", "e", "n", "g", "t", "h">>), "length">>,
     <<(<<"r", "a", "n", "d", "o", "m">>), "random">>,
     <<(<<"m", "o", "d">>), "mod">>}
C13_UnboundCases ==
    {<<LookupUnbound(name),
       IF \E b \in C13_Registry : b[1] = name
       THEN EvalOk(Function(Builtin((CHOOSE b \in C13_Registry :
                                        b[1] = name)[2])),
                   Env({<<(<<"a">>), IntV(1)>>}))
       ELSE RuntimeError(<<"reference to non-existent variable", name>>,
                         Env({<<(<<"a">>), IntV(1)>>}))>> :
        name \in LookupNames}
C13_BoundCases ==
    {<<LookupBound(name), EvalOk(IntV(7), Env({<<name, IntV(7)>>}))>> :
        name \in LookupNames}

\* C13: evaluating Variable(name) yields the environment's binding when one
\* exists (a user binding shadows a builtin of the same name), otherwise the
\* builtin function of that name when the name is one of log, exp, print,
\* length, random, mod, and otherwise fails with 'reference to non-existent
\* variable'; the lookup leaves the environment as it was.
C13_LookupOrder ==
    /\ EvaluatesTo(C13_UnboundCases)
    /\ EvaluatesTo(C13_BoundCases)
    /\ EvaluatesTo({<<ExampleBuiltinAsValue,
                      EvalOk(Float(1, 1),
                             Env({<<(<<"a">>), Function(Builtin("exp"))>>}))>>})

\* the three outcomes of a lookup have happened: `mod = 7; mod` gave the
\* user's 7, or `a = 1; mod` the builtin, or `a = 1; u` the error
C13_Witness ==
    \/ /\ tokens = LookupBound(<<"m", "o", "d">>)
       /\ evalResult = EvalOk(IntV(7), Env({<<(<<"m", "o", "d">>), IntV(7)>>}))
    \/ /\ tokens = LookupUnbound(<<"m", "o", "d">>)
       /\ evalResult.kind = "Ok"
       /\ evalResult.value = Function(Builtin("mod"))
    \/ /\ tokens = LookupUnbound(<<"u">>)
       /\ evalResult.kind = "Err"

\* the function value that the second statement of a program assigns
DefinedFunction == parseResult.expr.body[2].right.v

\* the caller's environment before the call of CallWithEffects
C14_CallerVars ==
    Env({<<(<<"a">>), IntV(1)>>, <<(<<"f">>), DefinedFunction>>})

\* C14: a call of a user-defined function named by a variable leaves the
\* caller's environment exactly as it was before the call, whether the call
\* returns a value or fails: parameter bindings, assignments made inside the
\* body and assignments made inside the argument expression are invisible to
\* the caller afterwards.
C14_CalleeIsolation ==
    \A name \in AssignedInBody, ending \in BodyEnds, arg \in ArgShapes :
        (tokens = CallWithEffects(name, ending, arg) /\ Evaluated) =>
            /\ evalResult.vars = C14_CallerVars
            /\ IF arg = "fail" \/ ending = "fail"
               THEN evalResult.kind = "Err"
               ELSE /\ evalResult.kind = "Ok"
                    /\ evalResult.value =
                           IF name = "x" THEN IntV(2) ELSE IntV(3)

\* `a = 1; func f(x) {a = 2; x}; f(a = 3)` has given 3, and the failing call
\* of `a = 1; func f(x) {a = 2; u}; f(n = 3)` has ended
C14_Witness ==
    \/ /\ tokens = CallWithEffects("a", "value", "assign_a")
       /\ evalResult.kind = "Ok"
       /\ evalResult.value = IntV(3)
       /\ evalResult.vars[<<"a">>] = IntV(1)
    \/ /\ tokens = CallWithEffects("a", "fail", "assign_n")
       /\ evalResult.kind = "Err"
       /\ evalResult.vars[<<"a">>] = IntV(1)

\* C15 as stated: a curly scope works on a copy of the enclosing environment
\* that is discarded at scope exit, so a variable assigned or reassigned
\* inside `{ ... }` has, after the scope, the binding (or absence of binding)
\* it had before the scope.
C15_ScopeWorksOnClone ==
    \A shape \in ScopeShapes, a_bound \in BOOLEAN :
        (tokens = AssignmentsInScope(shape, a_bound) /\ Evaluated) =>
            /\ BoundTo(<<"a">>) = IF a_bound THEN Some(IntV(1)) ELSE None
            /\ BoundTo(<<"n">>) = None
            /\ BoundTo(<<"z">>) = Some(IntV(0))

\* C15: a curly scope, on its own, inside another scope or as the body of an
\* if or a while, works on the enclosing environment itself: a variable
\* assigned or reassigned inside `{ ... }` has, after the scope, the value
\* assigned inside.
C15_ScopeSharesVars ==
    \A shape \in ScopeShapes, a_bound \in BOOLEAN :
        (tokens = AssignmentsInScope(shape, a_bound) /\ Evaluated) =>
            /\ evalResult.kind = "Ok"
            /\ BoundTo(<<"a">>) = Some(IntV(2))
            /\ BoundTo(<<"n">>) = Some(IntV(3))
            /\ BoundTo(<<"z">>) = Some(IntV(1))

\* `a = 1; z = 0; {a = 2; n = 3; z = 1}` has been evaluated
C15_Witness ==
    /\ tokens = AssignmentsInScope("plain", TRUE)
    /\ evalResult.kind = "Ok"
    /\ evalResult.vars[<<"a">>] = IntV(2)

\* what the call of CallAfterAssignment gives when the caller assigns nothing
\* between the definition and the call: a + 2 with a = 1, and an error for n
C16_WithoutAssignment(name) ==
    IF name = "a" THEN Some(IntV(3)) ELSE None

\* C16 as stated: if a variable that the body reads (and that is not a
\* parameter) is assigned or reassigned by the caller between the function's
\* definition and a call, the call's result is the same as if that later
\* assignment had not happened.
C16_LaterAssignmentUnseen ==
    \A name \in ReadByBody, assigned \in BOOLEAN :
        (tokens = CallAfterAssignment(name, assigned) /\ Evaluated) =>
            BoundTo(<<"r">>) = C16_WithoutAssignment(name)

\* C16: a user-defined function reads the caller's environment as it is at
\* the call: if a variable that the body reads (and that is not a parameter)
\* is assigned or reassigned by the caller between the function's definition
\* and a call, the call's result is computed with the value the variable has
\* at the call; without such an assignment the value bound before the
\* definition is used, and an unbound name is an error.  A body can so call
\* the function itself.
C16_CallSeesVarsAtCall ==
    /\ \A name \in ReadByBody :
           /\ (tokens = CallAfterAssignment(name, TRUE) /\ Evaluated) =>
                  BoundTo(<<"r">>) = Some(IntV(7))
           /\ (tokens = CallAfterAssignment(name, FALSE) /\ Evaluated) =>
                  /\ BoundTo(<<"r">>) = C16_WithoutAssignment(name)
                  /\ name = "n" =>
                         evalResult.errmsg =
                             <<"reference to non-existent variable", <<"n">>>>
    /\ (tokens = ExampleRecursion /\ Evaluated) =>
           BoundTo(<<"r">>) = Some(IntV(0))

\* `a = 1; func f(x) {a + x}; a = 5; r = f(2)` has bound r to 7
C16_Witness ==
    /\ tokens = CallAfterAssignment("a", TRUE)
    /\ BoundTo(<<"r">>) = Some(IntV(7))

\* the number of leaves of a pattern shape
LeavesOf(shape) ==
    CASE shape \in {"right", "left"} -> 3
      [] shape \in {"pair", "neg_pair", "pair_neg"} -> 2
      [] shape = "neg" -> 1
\* every name at a leaf of the pattern bound to the number at the same leaf
\* of the expression
LeafBindings(shape) ==
    Env({<<(<<StmtVar(k)>>), IntV(k + 1)>> : k \in 1..LeavesOf(shape)})
\* the right-hand expression of the assignment that is the first statement
RightHandSide == parseResult.expr.body[1].right
\* the pattern and the expression have one operator at every position
SameOperators(left, right) ==
    /\ left.e = right.e
    /\ left.e \in {"BinaryOperation", "UnaryOperation"}
    /\ left.op = right.op

C17_Shapes ==
    \A shape \in PatternShapes, op1 \in PatternOps, op2 \in PatternOps :
        (tokens = Destructuring(shape, op1, op2) /\ Evaluated) =>
            /\ SameOperators(parseResult.expr.body[1].left, RightHandSide)
            /\ evalResult.kind = eval(RightHandSide, <<>>, EvalFuel).kind
            /\ evalResult.kind = "Ok" =>
                  /\ evalResult.vars = LeafBindings(shape)
                  /\ evalResult.value =
                         eval(RightHandSide, <<>>, EvalFuel).value
C17_Examples ==
    EvaluatesTo(
        {<<ExampleNestedTuple,
           EvalOk(Tuple(<<IntV(1), Tuple(<<IntV(2), IntV(3)>>)>>),
                  Env({<<(<<"a">>), IntV(1)>>, <<(<<"b">>), IntV(2)>>,
                       <<(<<"c">>), IntV(3)>>}))>>,
         <<ExampleNegPattern,
           EvalOk(IntV(-1), Env({<<(<<"b">>), IntV(1)>>}))>>,
         <<ExampleSum,
           EvalOk(IntV(10), Env({<<(<<"a">>), IntV(3)>>, <<(<<"b">>), IntV(7)>>,
                                 <<(<<"s", "u", "m">>), IntV(10)>>}))>>})
\* the left sub-pattern is assigned before the right one: in `a, b = b, a`
\* b receives the a that was just assigned, and in `a, a = 1, 2` the second
\* assignment stays
C17_LeftFirst ==
    EvaluatesTo(
        {<<ExampleSwap,
           EvalOk(Tuple(<<IntV(2), IntV(2)>>),
                  Env({<<(<<"a">>), IntV(2)>>, <<(<<"b">>), IntV(2)>>}))>>,
         <<ExampleSameName,
           EvalOk(Tuple(<<IntV(1), IntV(2)>>),
                  Env({<<(<<"a">>), IntV(2)>>}))>>})

\* C17: when the left pattern and the right expression are trees with the
\* same operator at every non-leaf pattern position, every Variable leaf of
\* the pattern is bound to the value of the right sub-expression at the same
\* position (left sub-pattern before right sub-pattern), and the assignment's
\* value is the operator applied to the two sub-results, equal to the value
\* of the right expression; `a, (b, c) = 1, (2, 3)` binds a=1, b=2, c=3,
\* `-b = -1` binds b=1 and yields -1, `sum = a + b = 3 + 7` binds a=3, b=7,
\* sum=10.
C17_Destructuring ==
    /\ C17_Shapes
    /\ C17_Examples
    /\ C17_LeftFirst

\* `a - (b / c) = 2 - (3 / 4)` has bound the three names
C17_Witness ==
    /\ tokens = Destructuring("right", "Minus", "Slash")
    /\ evalResult = EvalOk(Float(5, 4),
                           Env({<<(<<"a">>), IntV(2)>>, <<(<<"b">>), IntV(3)>>,
                                <<(<<"c">>), IntV(4)>>}))

\* the operator at the top of a side, and whether it is binary or unary;
\* None for a side that is no operation
TopOperator(side) ==
    CASE side \in {"tuple"} -> Some(Binary("FormTuple"))
      [] side = "long_tuple" -> Some(Binary("AppendToTuple"))
      [] side \in {"sum", "unbound_sum"} -> Some(Binary("Add"))
      [] side = "call" -> Some(Binary("FunctionCall"))
      [] side = "assign" -> Some(Binary("Assign"))
      [] side = "neg" -> Some(Unary("Neg"))
      [] side = "return" -> Some(Unary("Return"))
      [] OTHER -> None
IsBinary(top) == top # None /\ top.some = Binary(top.some.op)
\* the message of a shape mismatch for a pattern with the operator expected
MismatchMessage(expected, right) ==
    Bind(IF IsBinary(expected)
         THEN "right-hand side of the assignment doesn't match the pattern, expected binary operation"
         ELSE "right-hand side of the assignment doesn't match the pattern, expected unary operation",
         LAMBDA text :
         IF TopOperator(right) # None
               /\ IsBinary(TopOperator(right)) = IsBinary(expected)
         THEN <<text, expected.some.op>> ELSE <<text>>)
\* the environment before the assignment of AssignmentOf
C18_VarsBefore ==
    Env({<<(<<"t">>), Tuple(<<IntV(1), IntV(2)>>)>>,
         <<(<<"f">>), DefinedFunction>>})

\* C18: assignment fails with a shape-mismatch error whenever the left side
\* is a binary (or unary) operation with operator L and the right expression
\* is not syntactically a binary (or unary) operation with the same operator
\* L, also when the right side is a variable or call whose value would be a
\* tuple of the right size; it fails with 'assignment is only possible to a
\* variable or a simple expression' whenever the left side is a literal, a
\* scope, an if or a while; no error case evaluates the right-hand
\* expression's operator (nothing is bound, and no error of the right-hand
\* side arises).
C18_ShapeErrors ==
    \A left \in LeftSides, right \in RightSides :
        (tokens = AssignmentOf(left, right) /\ Evaluated) =>
            IF TopOperator(left) = None
            THEN evalResult =
                     RuntimeError(<<"assignment is only possible to a variable or a simple expression">>,
                                  C18_VarsBefore)
            ELSE TopOperator(right) # TopOperator(left) =>
                     evalResult =
                         RuntimeError(MismatchMessage(TopOperator(left), right),
                                      C18_VarsBefore)

\* `a, b = t` with t = (1, 2) has failed, or `{a} = (z = 5)` has
C18_Witness ==
    \/ /\ tokens = AssignmentOf("tuple", "variable")
       /\ evalResult.kind = "Err"
       /\ evalResult.vars = C18_VarsBefore
    \/ /\ tokens = AssignmentOf("scope", "assign")
       /\ evalResult.kind = "Err"
       /\ evalResult.vars = C18_VarsBefore

\* the evaluation has ended with a value of the type
YieldsType(type) == evalResult.kind = "Ok" /\ evalResult.value.type = type
YieldsValue(v) == evalResult.kind = "Ok" /\ evalResult.value = v

\* C19: for all Int operands, Div yields a Float (never an Int, even when
\* the division is exact) while Add, Sub and Mul yield an Int; whenever one
\* operand is an Int and the other a Float, Add, Sub, Mul and Div yield a
\* Float; `10 / 5 / 2` is Float 1.0, `10 * 5 / 2` is Float 25.0 and `5 + 5`
\* is Int 10.
C19_ResultTypes ==
    /\ \A x, y \in IntOperands \cup FloatOperands, op \in ArithmeticOps :
           (tokens = Arithmetic(x, op, y) /\ Evaluated) =>
               IF x[1] = "Int" /\ y[1] = "Int"
               THEN YieldsType(IF op = "Div" THEN "Float" ELSE "Int")
               ELSE (x[1] = "Int" \/ y[1] = "Int") => YieldsType("Float")
    /\ (tokens = ExampleDivTwice /\ Evaluated) => YieldsValue(Float(1, 1))
    /\ (tokens = ExampleMulDiv /\ Evaluated) => YieldsValue(Float(25, 1))
    /\ (tokens = ExampleAdd /\ Evaluated) => YieldsValue(IntV(10))

\* base multiplied e times
RECURSIVE Power(_, _)
Power(base, e) == IF e = 0 THEN 1 ELSE base * Power(base, e - 1)

\* C20: for every Int base and every Int exponent e >= 0 (including e = 0)
\* the result of Pow is an Int equal to base^e, and for every Int exponent
\* e < 0 the result is a Float.
C20_PowOnIntegers ==
    \A base \in PowBases, e \in PowExponents :
        (tokens = PowOf(base, e) /\ Evaluated) =>
            IF e >= 0 THEN YieldsValue(IntV(Power(base, e)))
            ELSE YieldsType("Float")

\* the remainder of the division that truncates towards zero, for b # 0
Remainder(a, b) == Sign(a) * (Abs(a) % Abs(b))

\* C21: `mod` applied to any 2-tuple of Ints (a, b) returns Ok(Int remainder
\* of a by b), and applied to any other value it returns the error message
\* '"mod" accepts two integer arguments'; for no argument (a zero divisor
\* included) does it abort instead of returning a Result.
C21_ModIsTotal ==
    /\ \A a \in ModDividends, b \in ModDivisors :
           (tokens = ModOf(a, b) /\ Evaluated) =>
               /\ YieldsType("Int")
               /\ b # 0 => YieldsValue(IntV(Remainder(a, b)))
    /\ (tokens \in ModOfOthers /\ Evaluated) =>
           evalResult =
               RuntimeError(<<"\"mod\" accepts two integer arguments">>, <<>>)

(***************************************************************************)
(* Properties of main                                                      *)
(***************************************************************************)
\* the errors main has printed
PrintedErrors == SelectSeq(output, LAMBDA line : line.printed = "error")
\* the stage has returned an error, its rendering is the one error printed,
\* main has ended and has printed no resulting value
FailedAlone(stage, r) ==
    r.kind = "Err" =>
        /\ PrintedErrors = <<Rendered(stage, r)>>
        /\ pc = "exit"
        /\ \A k \in 1..Len(output) : output[k].printed # "Resulting value"

\* C22: in every run, parse is invoked only after tokenize returned Ok, and
\* eval is invoked only after parse returned Ok; when a stage fails its
\* rendered error is printed once and no later stage runs and no result is
\* produced; with the Fmt command neither parse nor eval runs.
C22_StageOrdering ==
    /\ parseResult # NotRun => tokResult.kind = "Ok"
    /\ evalResult # NotRun => parseResult.kind = "Ok"
    /\ FailedAlone("tokenize", tokResult)
    /\ tokResult.kind = "Err" => parseResult = NotRun /\ evalResult = NotRun
    /\ FailedAlone("parse", parseResult)
    /\ parseResult.kind = "Err" => evalResult = NotRun
    /\ FailedAlone("eval", evalResult)
    /\ command = Some("Fmt") => parseResult = NotRun /\ evalResult = NotRun

\* a verbose run has printed its tokens and then the parser's error
C22_Witness ==
    /\ parseResult.kind = "Err"
    /\ Len(output) = 2
    /\ output[1].printed = "Tokens"
    /\ pc = "exit"

(***************************************************************************)
(* Properties of the formatter                                             *)
(***************************************************************************)
\* the kind and the formatted lexeme of each token
KindsAndLexemes(toks) ==
    [i \in 1..Len(toks) |-> <<toks[i].t, format_token(toks[i])>>]
Formatted == wsEdit = [edit |-> "fmt"]

\* C23: for every source s that tokenizes successfully, re-serializing its
\* tokens with untokenize gives a text t that itself tokenizes successfully
\* to the same token kinds and lexemes (up to lower-casing of bool
\* literals), and formatting t again gives t.
C23_FormatRoundTrip ==
    /\ Formatted => pc # "abort"
    /\ (Formatted /\ tokResult2 # NotRun) =>
           /\ tokResult2.kind = "Ok"
           /\ KindsAndLexemes(tokResult2.tokens)
                  = KindsAndLexemes(tokResult.tokens)
           /\ file = Some(code2)

Unbound(name, env) ==
    RuntimeError(<<"reference to non-existent variable", name>>, env)

\* C24: for every binary operator other than Assign and FunctionCall the
\* right operand is evaluated completely before the left operand starts:
\* when both operands assign the same variable the left operand's
\* assignment is the one that remains, and when both operands fail the error
\* reported is the right operand's.
C24_RightOperandFirst ==
    \A op \in OrderOps :
        /\ (tokens = OperandOrder(op, "assigns", "assigns") /\ Evaluated) =>
               /\ evalResult.kind = "Ok"
               /\ evalResult.vars = Env({<<(<<"a">>), IntV(1)>>})
        /\ (tokens = OperandOrder(op, "fails", "fails") /\ Evaluated) =>
               evalResult = Unbound(<<"w">>, <<>>)
        /\ (tokens = OperandOrder(op, "assigns", "fails") /\ Evaluated) =>
               evalResult = Unbound(<<"w">>, <<>>)
        /\ (tokens = OperandOrder(op, "fails", "assigns") /\ Evaluated) =>
               evalResult = Unbound(<<"u">>, Env({<<(<<"a">>), IntV(2)>>}))

\* `(a = 1), 5, (a = 2)` has been evaluated and a is 1
C24_Witness ==
    /\ tokens = OperandOrder("AppendToTuple", "assigns", "assigns")
    /\ evalResult.kind = "Ok"
    /\ evalResult.vars = Env({<<(<<"a">>), IntV(1)>>})
    /\ evalResult.value = Tuple(<<IntV(1), IntV(5), IntV(2)>>)

\* the vars that bind the first n names to 1 .. n
FirstNames(n) == [name \in {StmtVar(k) : k \in 1..n} |->
                     IntV(CHOOSE k \in 1..n : StmtVar(k) = name)]

\* C25: each statement of a scope (top-level or curly-brace) is evaluated,
\* in order, against the very environment the scope was entered with, so a
\* binding made by an earlier statement is visible to every later statement
\* of the same scope, and bindings made inside a nested curly-brace scope
\* remain in the enclosing environment after that scope finishes.
C25_StatementsShareVars ==
    /\ \A place \in BindingPlaces, n \in 1..MaxStmts :
           (tokens = BindingChain(place, n) /\ Evaluated) =>
               evalResult = EvalOk(IntV(n), FirstNames(n))
    /\ (tokens = ExampleSumOfBound /\ Evaluated) => YieldsValue(IntV(11))
    /\ (tokens = ExampleChainOfBound /\ Evaluated) => YieldsValue(IntV(11))

\* `{a = 1; {b = a + 1; {c = b + 1}}}; c` has been evaluated
C25_Witness ==
    /\ tokens = BindingChain("deep", MaxStmts)
    /\ evalResult.kind = "Ok"
    /\ evalResult.value = IntV(MaxStmts)

NotBool(env) ==
    RuntimeError(<<"while loop condition must evaluate to bool, got",
                   "integer">>, env)
\* the vars after a loop: c - 1 is the number of times the condition was
\* true, b the number of times the body was evaluated
Counted(c, b) == Env({<<(<<"c">>), IntV(c)>>, <<(<<"b">>), IntV(b)>>})
\* the outcome of each loop of WhileInputs
C26_Loops ==
    /\ \A n \in 0..EvalFuel :
           (tokens = WhileLoop(n, 0) /\ Evaluated) =>
               evalResult = EvalOk(IF n = 0 THEN Nothing ELSE IntV(n),
                                   Counted(n + 1, n))
    /\ \A n \in 0..EvalFuel, return_at \in 1..EvalFuel :
           (tokens = WhileLoop(n, return_at) /\ Evaluated) =>
               evalResult =
                   IF return_at <= n
                   THEN EvalOk(IntV(7), Counted(return_at, return_at))
                   ELSE EvalOk(IntV(9), (<<"z">> :> IntV(9))
                                            @@ Counted(n + 1, n))
    /\ (tokens = WhileNeverBool /\ Evaluated) =>
           evalResult = NotBool(Env({<<(<<"b">>), IntV(0)>>}))
    /\ (tokens = WhileTurnsInt /\ Evaluated) =>
           evalResult = NotBool(Env({<<(<<"t">>), IntV(5)>>,
                                     <<(<<"b">>), IntV(1)>>}))
    /\ (tokens = ExampleWhileNever /\ Evaluated) =>
           evalResult = EvalOk(Nothing, <<>>)
\* a loop of WhileInputs whose body never returns
Counting == \E n \in 0..EvalFuel : tokens = WhileLoop(n, 0)

\* C26: the condition of a while loop is evaluated before every iteration
\* and must be a Bool (otherwise a RuntimeError and the loop stops); while it
\* is true the body is evaluated, and if the body's value is Returned the
\* loop stops at once and yields that sentinel without evaluating the
\* condition again; when the condition is false the loop stops and yields
\* the value of the last body evaluation, or Nothing if the body never ran.
\* A loop whose condition becomes false after n iterations with no Returned
\* body value evaluates the body exactly n times and terminates.
C26_WhileProtocol == []C26_Loops /\ (Counting ~> evalResult.kind = "Ok")

\* the loop of three iterations whose body returns in the second has ended
\* with c = 2
C26_Witness ==
    /\ tokens = WhileLoop(3, 2)
    /\ evalResult.kind = "Ok"
    /\ evalResult.value = IntV(7)
    /\ evalResult.vars[<<"c">>] = IntV(2)

\* C27: tokenize is total: for every source, the empty one and one that
\* consists of whitespace only included, tokenize returns Ok with a token
\* sequence or a TokenizerError whose error offset lies inside the source;
\* it never aborts.
C27_TokenizeTotal ==
    tokResult # NotRun =>
        \/ tokResult.kind = "Ok"
        \/ /\ tokResult.kind = "Err"
           /\ tokResult.error_char_idx \in 0..(byte_len(code) - 1)

\* C28: parse is total on tokenizer output: for every token sequence that
\* tokenize produced, parse returns Ok with an expression or a ParserError
\* whose error_token_idx is an index of the token slice it refers to; no
\* token past the end of a slice is read, also when `if`, `while` or `func`
\* with a condition or declaration but no body end a bracket group.
C28_ParseTotal ==
    (tokResult.kind = "Ok" /\ parseResult # NotRun) =>
        \/ parseResult.kind = "Ok"
        \/ /\ parseResult.kind = "Err"
           /\ parseResult.error_token_idx
                  \in 0..(Len(parseResult.tokens) - 1)

\* the vars before the assignment of a FailingAssignment
OnlyT == Env({<<(<<"t">>), IntV(9)>>})

\* C29: destructuring assignment is atomic on failure: whenever
\* eval_assignment returns an error (a shape mismatch in a nested
\* sub-pattern, an error while evaluating a right sub-expression, or an error
\* in the reconstructed operator), the environment holds the same bindings
\* as before the call: no variable of the pattern has been bound by the part
\* that succeeded.
C29_AtomicOnFailure ==
    \A kind \in FailureKinds, place \in FailurePlaces :
        (tokens = FailingAssignment(kind, place) /\ Evaluated) =>
            /\ evalResult.kind = "Err"
            /\ evalResult.vars = OnlyT

\* v is a Returned value, or a Tuple with such an element at any depth
RECURSIVE HoldsReturned(_)
HoldsReturned(v) ==
    \/ v.type = "Returned"
    \/ /\ v.type = "Tuple"
       /\ \E i \in 1..Len(v.elems) : HoldsReturned(v.elems[i])

\* C30: the Returned sentinel never becomes stored data: after any sequence
\* of evaluated statements no variable of the environment is bound to a
\* Returned value or to a Tuple that contains a Returned element, and the
\* value of the program is no such value either.
C30_ReturnedNeverStored ==
    (Evaluated /\ evalResult.kind \in {"Ok", "Err"}) =>
        /\ \A name \in DOMAIN evalResult.vars :
               ~HoldsReturned(evalResult.vars[name])
        /\ evalResult.kind = "Ok" => ~HoldsReturned(evalResult.value)

====
